---- MODULE Spec2Model ----
(***************************************************************************)
(* A model of the training orchestrator of RLGymPPO_CPP: the checkpoint    *)
(* directory handling of RLGPC::Learner (Save, Load, SaveStats, LoadStats, *)
(* PPOLearner::SaveTo / LoadFrom) and the Learner::Learn loop with its     *)
(* collector threads.                                                      *)
(*                                                                         *)
(* The repository holds two versions of Learner.cpp: src/unnamed/part_000  *)
(* (per-worker inferenceMutex, no pruning of old checkpoints) and          *)
(* src/unnamed/part_001 (disableCollection flag, pruning).  The variable   *)
(* `variant` says which of the two is built.                               *)
(***************************************************************************)
EXTENDS Integers, Sequences, FiniteSets

\* ------------------------------------------------------------------ bounds
\* Largest cumulative timestep count the model lets a run reach.
MaxTS == 2
\* Largest number of program runs (constructions of a Learner) on one disk.
MaxRuns == 2
\* Largest checkpointsToKeep the model configures.
MaxKeep == 2

VARIABLES
    variant,                 \* 0: Learner.cpp of part_000, 1: of part_001
    config,                  \* LearnerConfig fields of the current run
    fs,                      \* the file system: folder -> [exists, dirs]
    pc,                      \* "ctor", "ready" or "fatal" (the process ended)
    totalTimesteps,          \* Learner::totalTimesteps
    totalEpochs,             \* Learner::totalEpochs
    cumulativeModelUpdates,  \* PPOLearner::cumulativeModelUpdates
    returnStats,             \* Learner::returnStats (WelfordRunningStat)
    net,                     \* parameters of policy, valueNet and optimizers
    env,                     \* what the environment does: [nanReturns]
    runs,                    \* number of Learner constructions so far
    hist,                    \* history of the calls made (for the properties)
    agents,                  \* agentMgr->agents: worker -> [pc, seq, pending]
    inferenceMutex,          \* agent->inferenceMutex: worker -> its holder
    disableCollection,       \* agentMgr->disableCollection
    shouldRun,               \* whether the manager's workers are to run
    tsSinceSave,             \* the local tsSinceSave of Learner::Learn
    timesteps,               \* the local GameTrajectory of Learner::Learn
    expBuffer,               \* what was last submitted to the ExperienceBuffer
    log,                     \* history of Learner::Learn (for the properties)
    construction,            \* position and effects of Learner::Learner
    buffer,                  \* an ExperienceBuffer: [capacity, data, submitted]
    gae,                     \* a trajectory and what AddNewExperience computes
    ppoRun,                  \* position and gradients inside PPOLearner::Learn
    iter,                    \* one iteration of Learner::Learn with its report
    game                     \* a GameInst: its episode accumulators and metrics

ckptVars == <<variant, config, fs, pc, totalTimesteps, totalEpochs,
              cumulativeModelUpdates, returnStats, net, env, runs, hist>>

ckptVarsButPc == <<variant, config, fs, totalTimesteps, totalEpochs,
                   cumulativeModelUpdates, returnStats, net, env, runs, hist>>

learnVars == <<agents, inferenceMutex, disableCollection, shouldRun,
               tsSinceSave, timesteps, expBuffer, log>>

moreVars == <<construction, buffer, gae, ppoRun, iter, game>>

vars == <<ckptVars, learnVars, moreVars>>

\* The parts of the state a specification does not look at.
NoConstruction == [stage |-> "none"]
NoBuffer == [capacity |-> 0, data |-> <<>>, submitted |-> <<>>]
NoGae == [stage |-> "none"]
NoPpoRun == [stage |-> "none"]
NoIter == [pc |-> "none"]
NoGame == [stage |-> "none"]

\* --------------------------------------------------------- names and paths
\* A file name is a sequence of characters; a character is a one-letter string.
Digits == <<"0", "1", "2", "3", "4", "5", "6", "7", "8", "9">>

IsDigit(c) == \E d \in 1..10 : Digits[d] = c

DigitVal(c) == (CHOOSE d \in 1..10 : Digits[d] = c) - 1

IsSpace(c) == c = " "

\* std::to_string of a signed integer: no leading zeros, '-' for negatives.
RECURSIVE NatToString(_)
NatToString(n) ==
    IF n < 10 THEN <<Digits[n + 1]>>
    ELSE NatToString(n \div 10) \o <<Digits[(n % 10) + 1]>>

to_string(n) == IF n < 0 THEN <<"-">> \o NatToString(-n) ELSE NatToString(n)

RECURSIVE SkipSpaces(_, _)
SkipSpaces(s, i) ==
    IF i <= Len(s) /\ IsSpace(s[i]) THEN SkipSpaces(s, i + 1) ELSE i

\* The index after the run of digits of s that starts at i.
RECURSIVE DigitsEnd(_, _)
DigitsEnd(s, i) ==
    IF i <= Len(s) /\ IsDigit(s[i]) THEN DigitsEnd(s, i + 1) ELSE i

\* The value of the digits s[i..j], most significant first.
RECURSIVE DigitsValue(_, _, _)
DigitsValue(s, i, j) ==
    IF j < i THEN 0 ELSE DigitsValue(s, i, j - 1) * 10 + DigitVal(s[j])

\* std::stoll(name): skips leading white space, takes an optional sign and
\* the longest run of digits, and ignores whatever follows; it throws
\* (ok = FALSE) when no digit is there.  The names of the model are too
\* short to leave the range of int64_t.
Stoll(s) ==
    LET i == SkipSpaces(s, 1)
        neg == i <= Len(s) /\ s[i] = "-"
        j == IF i <= Len(s) /\ s[i] \in {"-", "+"} THEN i + 1 ELSE i
        k == DigitsEnd(s, j)
    IN  IF k = j
        THEN [ok |-> FALSE, val |-> 0]
        ELSE [ok |-> TRUE,
              val |-> IF neg THEN -DigitsValue(s, j, k - 1)
                             ELSE DigitsValue(s, j, k - 1)]

SetMin(S) == CHOOSE x \in S : \A y \in S : x <= y

SetMax(S) == CHOOSE x \in S : \A y \in S : x >= y

\* ------------------------------------------------------------ learner state
\* Floating-point values are modelled by their printed form; "nan" is NaN.
FloatValues == {"0.0", "1.0"}

NaN == "nan"

\* The layer-size signatures (GetSeqSizes) the model configures.
ArchSet == {<<2>>, <<2, 3>>}

\* The persistent counters and statistics of a Learner, as one record.
LearnerStats ==
    [totalTimesteps |-> totalTimesteps,
     cumulativeModelUpdates |-> cumulativeModelUpdates,
     totalEpochs |-> totalEpochs,
     returnStats |-> returnStats]

\* WelfordRunningStat(shape): zero mean, unit variance, no samples.
WelfordRunningStat(shape) ==
    [runningMean |-> [i \in 1..shape |-> "0.0"],
     runningVariance |-> [i \in 1..shape |-> "1.0"],
     shape |-> shape,
     count |-> 0]

\* The state a Learner has when its constructor reaches the call of Load.
FreshStats ==
    [totalTimesteps |-> 0,
     cumulativeModelUpdates |-> 0,
     totalEpochs |-> 0,
     returnStats |-> WelfordRunningStat(1)]

\* parameters.to(torch::ScalarType::BFloat16): the value is rounded to the
\* coarser grid of the half-precision type (here the multiples of 2, halves
\* rounded up), so distinct parameters may get the same conversion.
BFloat16(w) == 2 * ((w + 1) \div 2)

\* _CopyPolicyParamsHalf(policy, policyHalf): the parameters of policyHalf
\* become the conversion of the parameters of policy (network 1).
CopyPolicyParamsHalf(n) == [n EXCEPT !.half.w = BFloat16(n.w[1])]

\* A mutant of SyncHalf: the copy is left as it is.
NoResync(n) == n

\* "if (policyHalf) _CopyPolicyParamsHalf(policy, policyHalf);"
SyncHalf(n) == IF n.half.exists THEN CopyPolicyParamsHalf(n) ELSE n

\* A freshly constructed PPOLearner: networks of the configured sizes,
\* randomly initialised parameters and optimizer state (version 0), and, if
\* enabled, policyHalf with the converted parameters of policy (policyHalf is
\* NULL otherwise: exists is FALSE).
FreshNet(cfg) ==
    LET n == [sizes |-> <<cfg.policyLayerSizes, cfg.criticLayerSizes>>,
              w |-> <<0, 0, 0, 0>>,
              half |-> [exists |-> cfg.halfPrecisionPolicy, w |-> 0]]
    IN  IF cfg.halfPrecisionPolicy THEN CopyPolicyParamsHalf(n) ELSE n

\* Get sizes of all parameters in a sequence (network 1: policy, 2: valueNet).
GetSeqSizes(n, i) == n.sizes[i]

\* ------------------------------------------------------------- file contents
\* FILE_NAMES: 1 PPO_POLICY.lt, 2 PPO_VALUE_NET.lt, 3 PPO_POLICY_OPTIMIZER.lt,
\* 4 PPO_VALUE_NET_OPTIMIZER.lt.
FILE_NAMES == 1..4

NoFile == [present |-> FALSE, sizes |-> <<>>, w |-> 0]

\* nlohmann::json writes a NaN as null.
JsonOfFloat(f) == IF f = NaN THEN "null" ELSE f

fnMakeJsonArray(fList) == [i \in DOMAIN fList |-> JsonOfFloat(fList[i])]

NoStatsFile ==
    [present |-> FALSE, cumulative_timesteps |-> 0,
     cumulative_model_updates |-> 0, epoch |-> 0,
     mean |-> <<>>, var |-> <<>>, shape |-> 0, count |-> 0]

\* Learner::SaveStats: the JSON document written to RUNNING_STATS.json.
SaveStats(st) ==
    [present |-> TRUE,
     cumulative_timesteps |-> st.totalTimesteps,
     cumulative_model_updates |-> st.cumulativeModelUpdates,
     epoch |-> st.totalEpochs,
     mean |-> fnMakeJsonArray(st.returnStats.runningMean),
     var |-> fnMakeJsonArray(st.returnStats.runningVariance),
     shape |-> st.returnStats.shape,
     count |-> st.returnStats.count]

\* json::get<FList>() throws on an element that is not a number.
JsonArrayIsFList(a) == \A i \in DOMAIN a : a[i] # "null"

\* Learner::LoadStats on the stats file `file`: a fatal error when the file
\* cannot be opened or an array holds null, else the restored statistics.
LoadStats(file, st) ==
    IF ~file.present
    THEN [ok |-> FALSE, st |-> st]
    ELSE IF ~JsonArrayIsFList(file.mean)
    THEN [ok |-> FALSE,
          st |-> [st EXCEPT !.totalTimesteps = file.cumulative_timesteps,
                            !.cumulativeModelUpdates = file.cumulative_model_updates,
                            !.totalEpochs = file.epoch,
                            !.returnStats = WelfordRunningStat(file.shape)]]
    ELSE IF ~JsonArrayIsFList(file.var)
    THEN [ok |-> FALSE,
          st |-> [st EXCEPT !.totalTimesteps = file.cumulative_timesteps,
                            !.cumulativeModelUpdates = file.cumulative_model_updates,
                            !.totalEpochs = file.epoch,
                            !.returnStats =
                                [WelfordRunningStat(file.shape)
                                    EXCEPT !.runningMean = file.mean]]]
    ELSE [ok |-> TRUE,
          st |-> [totalTimesteps |-> file.cumulative_timesteps,
                  cumulativeModelUpdates |-> file.cumulative_model_updates,
                  totalEpochs |-> file.epoch,
                  returnStats |-> [runningMean |-> file.mean,
                                   runningVariance |-> file.var,
                                   shape |-> file.shape,
                                   count |-> file.count]]]

\* The files PPOLearner::SaveTo writes (TorchLoadSaveAll with load = false).
SaveTo(n) ==
    [i \in FILE_NAMES |->
        [present |-> TRUE,
         sizes |-> IF i <= 2 THEN GetSeqSizes(n, i) ELSE <<>>,
         w |-> n.w[i]]]

\* A checkpoint directory: the stats file, the four model files, and (for the
\* properties) the statistics the Learner held when Save wrote it.
NoDir == [stats |-> NoStatsFile, files |-> [i \in FILE_NAMES |-> NoFile],
          held |-> FreshStats]

FullDir(st, n) == [stats |-> SaveStats(st), files |-> SaveTo(n), held |-> st]

\* ------------------------------------------------------------------ loading
\* A mutant of StdEqual: std::equal with three iterators, which compares only
\* the first Len(a) elements.
StdEqualPrefix(a, b) ==
    Len(a) <= Len(b) /\ \A i \in 1..Len(a) : a[i] = b[i]

\* std::equal(a.begin(), a.end(), b.begin(), b.end()).
StdEqual(a, b) ==
    Len(a) = Len(b) /\ \A i \in 1..Len(a) : a[i] = b[i]

\* TorchLoadSaveSeq with load = true, for network i from `file`.  torch::load
\* of a model of another size either throws (`throws`) or replaces the
\* parameters by the saved ones; the sizes are then compared.
TorchLoadSaveSeq(n, i, file, throws) ==
    LET sizesBefore == GetSeqSizes(n, i)
        loaded == [n EXCEPT !.sizes[i] = file.sizes, !.w[i] = file.w]
        sizesAfter == GetSeqSizes(loaded, i)
    IN  IF ~file.present \/ (throws /\ file.sizes # sizesBefore)
        THEN [ok |-> FALSE, net |-> n]
        ELSE [ok |-> StdEqual(sizesBefore, sizesAfter), net |-> loaded]

\* A mutant of TorchLoadSaveAll: no check that the four files exist before
\* the first of them is loaded.
TorchLoadSaveAllLazy(n, dir, throws) ==
    LET p == TorchLoadSaveSeq(n, 1, dir.files[1], throws)
        v == TorchLoadSaveSeq(p.net, 2, dir.files[2], throws)
        po == [v.net EXCEPT !.w[3] = dir.files[3].w]
        vo == [po EXCEPT !.w[4] = dir.files[4].w]
    IN  IF ~p.ok THEN p
        ELSE IF ~v.ok THEN v
        ELSE IF ~dir.files[3].present THEN [ok |-> FALSE, net |-> v.net]
        ELSE IF ~dir.files[4].present THEN [ok |-> FALSE, net |-> po]
        ELSE [ok |-> TRUE, net |-> vo]

\* TorchLoadSaveAll with load = true: all four files must exist, then the
\* policy, the value net and the two optimizers are loaded in that order.
TorchLoadSaveAll(n, dir, throws) ==
    LET p == TorchLoadSaveSeq(n, 1, dir.files[1], throws)
        v == TorchLoadSaveSeq(p.net, 2, dir.files[2], throws)
    IN  IF \E i \in FILE_NAMES : ~dir.files[i].present
        THEN [ok |-> FALSE, net |-> n]
        ELSE IF ~p.ok THEN p
        ELSE IF ~v.ok THEN v
        ELSE [ok |-> TRUE,
              net |-> [v.net EXCEPT !.w[3] = dir.files[3].w,
                                    !.w[4] = dir.files[4].w]]

\* PPOLearner::LoadFrom(folderPath, false) on directory `name` of `dirs`;
\* after the load policyHalf, if there is one, is copied from policy.
LoadFrom(n, dirs, name, throws) ==
    IF name \notin DOMAIN dirs
    THEN [ok |-> FALSE, net |-> n]
    ELSE LET r == TorchLoadSaveAll(n, dirs[name], throws)
         IN  IF r.ok THEN [ok |-> TRUE, net |-> SyncHalf(r.net)] ELSE r

\* The names of `dirs` that std::stoll accepts, and their values.
ParsedNames(dirs) == {nm \in DOMAIN dirs : Stoll(nm).ok}

ParsedValues(dirs) == {Stoll(nm).val : nm \in ParsedNames(dirs)}

\* The loop of Learner::Load: the highest parsed value, -1 when there is none
\* or the load folder is no directory.
Highest(folder) ==
    IF folder.exists THEN SetMax(ParsedValues(folder.dirs) \cup {-1}) ELSE -1

\* Learner::Load, as a function of the state before it: the outcome (ok:
\* returned normally), the statistics, the networks and the file system after
\* it, and the directory it selected (<<>> when it selected none).
Load(v, cfg, files, st, n, throws) ==
    IF cfg.checkpointLoadFolder = ""
    THEN [ok |-> FALSE, st |-> st, net |-> n, fs |-> files, sel |-> <<>>]
    ELSE
    LET F == cfg.checkpointLoadFolder
        highest == Highest(files[F])
        name == to_string(highest)
        dirs == files[F].dirs
        there == name \in DOMAIN dirs
    IN  IF highest = -1
        THEN [ok |-> TRUE, st |-> st, net |-> n, fs |-> files, sel |-> <<>>]
        ELSE IF v = 1
        THEN \* part_001: LoadStats(loadFolder / STATS_FILE_NAME)
            LET rs == LoadStats(IF there THEN dirs[name].stats ELSE NoStatsFile, st)
                rn == LoadFrom(n, dirs, name, throws)
            IN  IF ~rs.ok
                THEN [ok |-> FALSE, st |-> rs.st, net |-> n, fs |-> files,
                      sel |-> name]
                ELSE [ok |-> rn.ok, st |-> rs.st, net |-> rn.net, fs |-> files,
                      sel |-> name]
        ELSE \* part_000: SaveStats(loadFolder / STATS_FILE_NAME)
            LET written == [files EXCEPT ![F].dirs[name].stats = SaveStats(st)]
                rn == LoadFrom(n, dirs, name, throws)
            IN  IF ~there
                THEN [ok |-> FALSE, st |-> st, net |-> n, fs |-> files,
                      sel |-> name]
                ELSE [ok |-> rn.ok, st |-> st, net |-> rn.net, fs |-> written,
                      sel |-> name]

\* ------------------------------------------------------------------- saving
EmptyDirs == [nm \in {} |-> NoDir]

PutDir(dirs, name, d) ==
    [nm \in DOMAIN dirs \cup {name} |-> IF nm = name THEN d ELSE dirs[nm]]

\* std::filesystem::remove_all: nothing happens when the path does not exist.
RemoveAll(dirs, name) == [nm \in DOMAIN dirs \ {name} |-> dirs[nm]]

\* A mutant of RemoveOld: the comparison is >= instead of >.
RemoveOldGeq(dirs, keep) ==
    LET numCheckpoints == Cardinality(ParsedNames(dirs))
    IN  IF numCheckpoints >= keep /\ numCheckpoints > 0
        THEN RemoveAll(dirs, to_string(SetMin(ParsedValues(dirs))))
        ELSE dirs

\* "Remove old checkpoints" of Learner::Save: when more directories parse as a
\* number than checkpointsToKeep, the one named by the lowest value is removed.
\* (With no parsed name lowestCheckpointTS stays INT64_MAX, a path that does
\* not exist.)
RemoveOld(dirs, keep) ==
    LET numCheckpoints == Cardinality(ParsedNames(dirs))
    IN  IF numCheckpoints > keep /\ numCheckpoints > 0
        THEN RemoveAll(dirs, to_string(SetMin(ParsedValues(dirs))))
        ELSE dirs

\* Learner::Save, as a function of the state before it: whether it returned
\* normally, and the file system after it.
Save(v, cfg, files, st, n) ==
    LET S == cfg.checkpointSaveFolder
        L == cfg.checkpointLoadFolder
        name == to_string(st.totalTimesteps)
        saved == [files EXCEPT ![S] =
                     [exists |-> TRUE,
                      dirs |-> PutDir(files[S].dirs, name, FullDir(st, n))]]
    IN  IF S = ""
        THEN [ok |-> FALSE, fs |-> files]
        ELSE IF v = 0 \/ cfg.checkpointsToKeep = -1
        THEN [ok |-> TRUE, fs |-> saved]
        ELSE IF L = "" \/ ~saved[L].exists
        THEN \* std::filesystem::directory_iterator throws, nothing catches it
             [ok |-> FALSE, fs |-> saved]
        ELSE [ok |-> TRUE,
              fs |-> [saved EXCEPT ![L].dirs =
                         RemoveOld(@, cfg.checkpointsToKeep)]]

\* What a Save that is killed after `stage` of its file writes leaves in the
\* directory `old` (stage 0: the directory alone, 1: the stats file, 2..5: the
\* model files in the order of FILE_NAMES).
PartialDir(old, st, n, stage) ==
    [stats |-> IF stage >= 1 THEN SaveStats(st) ELSE old.stats,
     files |-> [i \in FILE_NAMES |->
                   IF stage >= i + 1 THEN SaveTo(n)[i] ELSE old.files[i]],
     held |-> IF stage >= 1 THEN st ELSE old.held]

\* ------------------------------------------------------ checkpoint actions
Folders == {"A", "B"}

\* <<checkpointLoadFolder, checkpointSaveFolder>>; "" is the empty path.
FolderConfigs ==
    {<<"A", "A">>, <<"A", "B">>, <<"B", "A">>, <<"", "A">>, <<"A", "">>}

KeepValues == {-1} \cup (1..MaxKeep)

\* <<policy sizes, value net sizes>> of a PPOLearner.
ArchPairs == {<<a, a>> : a \in ArchSet} \cup {<<(<<2, 3>>), (<<2>>)>>}

BaseArch == <<(<<2>>), (<<2>>)>>

\* Directories an earlier run or the user may have left in folder "A".
PreSets ==
    {{}, {<<"1">>}, {<<"a">>}, {<<"2", "a">>}, {<<"1">>, <<"2", "a">>}}

PreStats ==
    [totalTimesteps |-> 1, cumulativeModelUpdates |-> 3, totalEpochs |-> 2,
     returnStats |-> [runningMean |-> <<"1.0">>, runningVariance |-> <<"0.0">>,
                      shape |-> 1, count |-> 1]]

PreDir(arch) == FullDir(PreStats, [sizes |-> arch, w |-> <<1, 1, 1, 1>>])

\* The same directory with its stats file deleted.
PreDirNoStats(arch) == [PreDir(arch) EXCEPT !.stats = NoStatsFile]

\* The configurations and disks a run starts from: every folder setting and
\* retention count on an empty disk, every set of left-over directories, a
\* load folder that exists but is empty, a load folder with two checkpoints
\* and another folder to save to, every pair of network sizes against
\* a checkpoint of every pair, returns that may turn the running mean into
\* NaN, and a checkpoint whose stats file was deleted.
Scenarios ==
    {[folders |-> fc, keep |-> k, pre |-> {}, b |-> FALSE,
      arch |-> BaseArch, preArch |-> BaseArch, nan |-> FALSE, stats |-> TRUE] :
        fc \in FolderConfigs, k \in KeepValues}
    \cup
    {[folders |-> <<"A", "A">>, keep |-> k, pre |-> p, b |-> FALSE,
      arch |-> BaseArch, preArch |-> BaseArch, nan |-> FALSE, stats |-> TRUE] :
        p \in PreSets, k \in {-1, 1}}
    \cup
    {[folders |-> <<"B", "A">>, keep |-> 1, pre |-> {}, b |-> TRUE,
      arch |-> BaseArch, preArch |-> BaseArch, nan |-> FALSE, stats |-> TRUE]}
    \cup
    {[folders |-> <<"A", "B">>, keep |-> 1, pre |-> {<<"1">>, <<"2">>},
      b |-> FALSE,
      arch |-> BaseArch, preArch |-> BaseArch, nan |-> FALSE, stats |-> TRUE]}
    \cup
    {[folders |-> <<"A", "A">>, keep |-> -1, pre |-> {<<"1">>}, b |-> FALSE,
      arch |-> a, preArch |-> pa, nan |-> FALSE, stats |-> TRUE] :
        a \in ArchPairs, pa \in ArchPairs}
    \cup
    {[folders |-> <<"A", "A">>, keep |-> -1, pre |-> {}, b |-> FALSE,
      arch |-> BaseArch, preArch |-> BaseArch, nan |-> TRUE, stats |-> TRUE]}
    \cup
    {[folders |-> <<"A", "A">>, keep |-> -1, pre |-> {<<"1">>}, b |-> FALSE,
      arch |-> BaseArch, preArch |-> BaseArch, nan |-> FALSE, stats |-> FALSE]}

\* LearnerConfig::halfPrecisionPolicy: the older Learner (variant 0) has no
\* such option and constructs its PPOLearner without a half-precision copy.
HalfPrecisionChoices(v) == IF v = 1 THEN BOOLEAN ELSE {FALSE}

\* Learner::Learner: "if (config.timestepsPerSave == 0)
\*     config.timestepsPerSave = config.timestepsPerIteration;"
Normalize(timestepsPerSave, timestepsPerIteration) ==
    IF timestepsPerSave = 0 THEN timestepsPerIteration ELSE timestepsPerSave

\* The collector threads of the agent manager.
Workers == {1, 2}

NoLog ==
    [returned |-> [w \in Workers |-> <<>>], events |-> <<>>, prev |-> <<>>,
     iterations |-> 0, stopCalls |-> 0, sinceSave |-> 0, threw |-> FALSE,
     decision |-> [made |-> FALSE, acc |-> 0, called |-> FALSE]]

\* The state of a constructed Learner whose Learn has not been called: the
\* agents are created, their threads are not started.
NotLearning ==
    /\ agents = [w \in Workers |-> [pc |-> "off", seq |-> 0, pending |-> <<>>]]
    /\ inferenceMutex = [w \in Workers |-> "free"]
    /\ disableCollection = FALSE
    /\ shouldRun = FALSE
    /\ tsSinceSave = 0
    /\ timesteps = <<>>
    /\ expBuffer = <<>>
    /\ log = NoLog

NoLoad ==
    [names |-> {}, sel |-> <<>>, full |-> FALSE, missing |-> FALSE,
     mismatch |-> FALSE, held |-> FreshStats, netBefore |-> FreshNet(config),
     fsBefore |-> [f \in Folders |-> [exists |-> FALSE, dirs |-> EmptyDirs]]]

\* What the history keeps of a call of Load made in the current state.
LoadRecord(r) ==
    LET F == config.checkpointLoadFolder
        dirs == IF F = "" THEN EmptyDirs ELSE fs[F].dirs
        there == r.sel \in DOMAIN dirs
        d == IF there THEN dirs[r.sel] ELSE NoDir
    IN  [names |-> DOMAIN dirs,
         sel |-> r.sel,
         full |-> there /\ d.stats.present
                  /\ \A i \in FILE_NAMES : d.files[i].present,
         missing |-> r.sel # <<>>
                     /\ (~d.stats.present \/ \E i \in FILE_NAMES : ~d.files[i].present),
         mismatch |-> there
                      /\ (\A i \in FILE_NAMES : d.files[i].present)
                      /\ \E i \in 1..2 : d.files[i].sizes # GetSeqSizes(net, i),
         held |-> d.held,
         netBefore |-> net,
         fsBefore |-> fs]

InitCkpt ==
    /\ variant \in {0, 1}
    /\ \E sc \in Scenarios, hp \in HalfPrecisionChoices(variant) :
          /\ config = [checkpointLoadFolder |-> sc.folders[1],
                       checkpointSaveFolder |-> sc.folders[2],
                       checkpointsToKeep |-> sc.keep,
                       policyLayerSizes |-> sc.arch[1],
                       criticLayerSizes |-> sc.arch[2],
                       halfPrecisionPolicy |-> hp,
                       deviceIsCpu |-> TRUE,
                       timestepLimit |-> 0,
                       timestepsPerIteration |-> 1,
                       timestepsPerSave |-> Normalize(0, 1)]
          /\ fs = [f \in Folders |->
                     IF f = "A"
                     THEN [exists |-> TRUE,
                           dirs |-> [nm \in sc.pre |->
                                       IF sc.stats THEN PreDir(sc.preArch)
                                       ELSE PreDirNoStats(sc.preArch)]]
                     ELSE [exists |-> sc.b, dirs |-> EmptyDirs]]
          /\ env = [nanReturns |-> sc.nan, timestepsPerSave |-> 0]
    /\ pc = "ctor"
    /\ NotLearning
    /\ construction = NoConstruction
    /\ buffer = NoBuffer
    /\ gae = NoGae
    /\ ppoRun = NoPpoRun
    /\ iter = NoIter
    /\ game = NoGame
    /\ totalTimesteps = 0
    /\ totalEpochs = 0
    /\ cumulativeModelUpdates = 0
    /\ returnStats = WelfordRunningStat(1)
    /\ net = FreshNet(config)
    /\ runs = 1
    /\ hist = [op |-> "none", saved |-> {}, last |-> -1, increasing |-> TRUE,
               interrupted |-> FALSE,
               initEmpty |-> \A f \in Folders : DOMAIN fs[f].dirs = {},
               load |-> NoLoad]

SetStats(st) ==
    /\ totalTimesteps' = st.totalTimesteps
    /\ totalEpochs' = st.totalEpochs
    /\ cumulativeModelUpdates' = st.cumulativeModelUpdates
    /\ returnStats' = st.returnStats

\* Learner::Learner: "if (!config.checkpointLoadFolder.empty()) Load();"
Construct ==
    /\ pc = "ctor"
    /\ IF config.checkpointLoadFolder # ""
       THEN \E throws \in BOOLEAN :
               LET r == Load(variant, config, fs, LearnerStats, net, throws)
               IN  /\ SetStats(r.st)
                   /\ net' = r.net
                   /\ fs' = r.fs
                   /\ pc' = IF r.ok THEN "ready" ELSE "fatal"
                   /\ hist' = [hist EXCEPT !.op = "Load", !.load = LoadRecord(r)]
       ELSE /\ pc' = "ready"
            /\ hist' = [hist EXCEPT !.op = "none"]
            /\ UNCHANGED <<totalTimesteps, totalEpochs, cumulativeModelUpdates,
                           returnStats, net, fs>>
    /\ UNCHANGED <<variant, config, env, runs>>
    /\ UNCHANGED learnVars
    /\ UNCHANGED moreVars

\* Learner::Save called on a constructed Learner.
SaveCall ==
    /\ pc = "ready"
    /\ LET r == Save(variant, config, fs, LearnerStats, net)
       IN  /\ fs' = r.fs
           /\ pc' = IF r.ok THEN "ready" ELSE "fatal"
           /\ hist' = IF r.ok
                      THEN [hist EXCEPT
                              !.op = "Save",
                              !.saved = @ \cup {totalTimesteps},
                              !.last = totalTimesteps,
                              !.increasing = @ /\ totalTimesteps > hist.last,
                              !.load = NoLoad]
                      ELSE [hist EXCEPT !.op = "SaveFailed", !.load = NoLoad]
    /\ UNCHANGED <<variant, config, totalTimesteps, totalEpochs,
                   cumulativeModelUpdates, returnStats, net, env, runs>>
    /\ UNCHANGED learnVars
    /\ UNCHANGED moreVars

\* The stages at which the model lets a Save be killed.
KillStages == {0, 4}

\* The process is killed inside Save, after `stage` of its file writes.
SaveInterrupted ==
    /\ pc = "ready"
    /\ config.checkpointSaveFolder # ""
    /\ \E stage \in KillStages :
          LET S == config.checkpointSaveFolder
              name == to_string(totalTimesteps)
              old == IF name \in DOMAIN fs[S].dirs THEN fs[S].dirs[name] ELSE NoDir
          IN  fs' = [fs EXCEPT ![S] =
                        [exists |-> TRUE,
                         dirs |-> PutDir(fs[S].dirs, name,
                                         PartialDir(old, LearnerStats, net, stage))]]
    /\ pc' = "fatal"
    /\ hist' = [hist EXCEPT !.op = "Interrupt", !.interrupted = TRUE,
                            !.load = NoLoad]
    /\ UNCHANGED <<variant, config, totalTimesteps, totalEpochs,
                   cumulativeModelUpdates, returnStats, net, env, runs>>
    /\ UNCHANGED learnVars
    /\ UNCHANGED moreVars

\* What one iteration of Learner::Learn does to the state a checkpoint holds:
\* timesteps are added (one per iteration here), totalEpochs grows by
\* config.ppo.epochs (2 here), cumulativeModelUpdates by the number of
\* optimizer steps (3 here), the statistics are incremented and the networks
\* updated.
Iterate ==
    /\ pc = "ready"
    /\ totalTimesteps < MaxTS
    /\ totalTimesteps' = totalTimesteps + 1
    /\ totalEpochs' = totalEpochs + 2
    /\ cumulativeModelUpdates' = cumulativeModelUpdates + 3
    /\ \E m \in IF returnStats.runningMean[1] = NaN THEN {NaN}
                ELSE IF env.nanReturns THEN {"1.0", NaN} ELSE {"1.0"} :
          returnStats' = [returnStats EXCEPT !.runningMean = <<m>>,
                                             !.count = @ + 1]
    /\ net' = SyncHalf([net EXCEPT !.w = [i \in FILE_NAMES |-> net.w[i] + 1]])
    /\ hist' = [hist EXCEPT !.op = "Iterate", !.load = NoLoad]
    /\ UNCHANGED <<variant, config, fs, pc, env, runs>>
    /\ UNCHANGED learnVars
    /\ UNCHANGED moreVars

\* The program is started again on the same disk with the same configuration.
Restart ==
    /\ pc \in {"ready", "fatal"}
    /\ runs < MaxRuns
    /\ runs' = runs + 1
    /\ pc' = "ctor"
    /\ SetStats(FreshStats)
    /\ net' = FreshNet(config)
    /\ hist' = [hist EXCEPT !.op = "none", !.load = NoLoad]
    /\ UNCHANGED <<variant, config, fs, env>>
    /\ UNCHANGED learnVars
    /\ UNCHANGED moreVars

NextCkpt ==
    \/ Construct
    \/ SaveCall
    \/ SaveInterrupted
    \/ Iterate
    \/ Restart

SpecCkpt == InitCkpt /\ [][NextCkpt]_vars

\* ---------------------------------------------------------- Learner::Learn
\* Largest number of steps one worker produces.
MaxSteps == 3
\* The positive timestepLimit the model configures.
MaxLimit == 3

\* "while (totalTimesteps < config.timestepLimit || config.timestepLimit == 0)"
\* with the clause for an unlimited run left out (a mutant).
LoopCondNoZero(ts, limit) == ts < limit

\* "while (totalTimesteps < config.timestepLimit || config.timestepLimit == 0)"
LoopCond(ts, limit) == ts < limit \/ limit = 0

\* "bool blockAgentInferDuringLearn = !device.is_cpu();"
blockAgentInferDuringLearn == ~config.deviceIsCpu

\* The position that follows position p in the body of the loop, with the
\* submit moved behind PPOLearner::Learn (a mutant).
AfterStepSubmitLate(p) ==
    CASE p = "collect" -> "pause"
      [] p = "pause" -> "learn"
      [] p = "learn" -> "add"
      [] p = "add" -> "resume"
      [] p = "resume" -> "save"
      [] p = "save" -> "loop"

\* The position that follows position p in the body of the loop of
\* Learner::Learn: CollectTimesteps, AddNewExperience, the pause of the
\* workers, ppo->Learn, the end of the pause, the save, the loop test.
AfterStep(p) ==
    CASE p = "collect" -> "add"
      [] p = "add" -> "pause"
      [] p = "pause" -> "learn"
      [] p = "learn" -> "resume"
      [] p = "resume" -> "save"
      [] p = "save" -> "loop"

\* "if (tsSinceSave > config.timestepsPerSave &&
\*      !config.checkpointSaveFolder.empty())" with >= for > (a mutant).
SaveDueGeq(acc, cfg) ==
    acc >= cfg.timestepsPerSave /\ cfg.checkpointSaveFolder # ""

\* "if (tsSinceSave > config.timestepsPerSave &&
\*      !config.checkpointSaveFolder.empty())"
SaveDue(acc, cfg) ==
    acc > cfg.timestepsPerSave /\ cfg.checkpointSaveFolder # ""

\* The step records of worker w that wait to be collected, each with the
\* worker and its sequence tag.
Tagged(w, pending) == [i \in 1..Len(pending) |-> <<w, pending[i]>>]

\* The records all workers hold, worker after worker.
RECURSIVE Gather(_, _)
Gather(ag, ws) ==
    IF ws = {} THEN <<>>
    ELSE LET w == SetMin(ws)
         IN  Tagged(w, ag[w].pending) \o Gather(ag, ws \ {w})

\* The workers after a collection that leaves the records with them (a
\* mutant).
TakenKeep(ag) == ag

\* The workers after a collection: their records are handed over.
Taken(ag) == [w \in Workers |-> [ag[w] EXCEPT !.pending = <<>>]]

\* The tags of worker w in a trajectory.
RECURSIVE TagsOf(_, _)
TagsOf(traj, w) ==
    IF traj = <<>> THEN <<>>
    ELSE (IF Head(traj)[1] = w THEN <<Head(traj)[2]>> ELSE <<>>)
         \o TagsOf(Tail(traj), w)

\* The configurations Learn is called with: both versions of Learner.cpp on
\* either device with a timestep limit, and without one (the two versions do
\* the same on a CPU: one of them there), all with no save folder; a save
\* folder with each setting of timestepsPerSave; a save folder and no load
\* folder; a Learner that loaded a checkpoint beyond the limit.
LearnScenarios ==
    {[variant |-> v, cpu |-> c, limit |-> MaxLimit, folders |-> <<"", "">>,
      keep |-> -1, perSave |-> 0, loaded |-> 0] :
        v \in {0, 1}, c \in BOOLEAN}
    \cup
    {[variant |-> vc[1], cpu |-> vc[2], limit |-> 0, folders |-> <<"", "">>,
      keep |-> -1, perSave |-> 0, loaded |-> 0] :
        vc \in {<<0, FALSE>>, <<1, FALSE>>, <<1, TRUE>>}}
    \cup
    {[variant |-> 1, cpu |-> FALSE, limit |-> MaxLimit, folders |-> <<"A", "A">>,
      keep |-> 1, perSave |-> s, loaded |-> 0] :
        s \in {0, 1, 3}}
    \cup
    {[variant |-> 0, cpu |-> FALSE, limit |-> MaxLimit, folders |-> <<"A", "A">>,
      keep |-> 1, perSave |-> 0, loaded |-> 0]}
    \cup
    {[variant |-> 1, cpu |-> FALSE, limit |-> MaxLimit, folders |-> <<"", "A">>,
      keep |-> 1, perSave |-> 1, loaded |-> 0]}
    \cup
    {[variant |-> 1, cpu |-> FALSE, limit |-> MaxLimit, folders |-> <<"", "">>,
      keep |-> -1, perSave |-> 0, loaded |-> MaxLimit + 1]}

\* A constructed Learner, before Learn is called.
InitLearn ==
    /\ \E sc \in LearnScenarios :
          /\ variant = sc.variant
          /\ config = [checkpointLoadFolder |-> sc.folders[1],
                       checkpointSaveFolder |-> sc.folders[2],
                       checkpointsToKeep |-> sc.keep,
                       policyLayerSizes |-> BaseArch[1],
                       criticLayerSizes |-> BaseArch[2],
                       halfPrecisionPolicy |-> sc.variant = 1,
                       deviceIsCpu |-> sc.cpu,
                       timestepLimit |-> sc.limit,
                       timestepsPerIteration |-> 2,
                       timestepsPerSave |-> Normalize(sc.perSave, 2)]
          /\ env = [nanReturns |-> FALSE, timestepsPerSave |-> sc.perSave]
          /\ totalTimesteps = sc.loaded
    /\ fs = [f \in Folders |->
               [exists |-> f = config.checkpointLoadFolder, dirs |-> EmptyDirs]]
    /\ pc = "ready"
    /\ totalEpochs = 0
    /\ cumulativeModelUpdates = 0
    /\ returnStats = WelfordRunningStat(1)
    /\ net = FreshNet(config)
    /\ runs = 1
    /\ hist = [op |-> "none", saved |-> {}, last |-> -1, increasing |-> TRUE,
               interrupted |-> FALSE, initEmpty |-> TRUE, load |-> NoLoad]
    /\ NotLearning
    /\ construction = NoConstruction
    /\ buffer = NoBuffer
    /\ gae = NoGae
    /\ ppoRun = NoPpoRun
    /\ iter = NoIter
    /\ game = NoGame

\* "agentMgr->StartAgents(); int64_t tsSinceSave = 0;"
LearnBegin ==
    /\ pc = "ready"
    /\ pc' = "loop"
    /\ shouldRun' = TRUE
    /\ agents' = [w \in Workers |-> [agents[w] EXCEPT !.pc = "idle"]]
    /\ tsSinceSave' = 0
    /\ UNCHANGED <<inferenceMutex, disableCollection, timesteps, expBuffer, log>>
    /\ UNCHANGED ckptVarsButPc
    /\ UNCHANGED moreVars

\* The test of the while loop.
LoopTest ==
    /\ pc = "loop"
    /\ pc' = IF LoopCond(totalTimesteps, config.timestepLimit)
             THEN "collect" ELSE "stop"
    /\ UNCHANGED <<variant, config, fs, totalTimesteps, totalEpochs,
                   cumulativeModelUpdates, returnStats, net, env, runs, hist>>
    /\ UNCHANGED learnVars
    /\ UNCHANGED moreVars

\* "GameTrajectory timesteps = agentMgr->CollectTimesteps(
\*      config.timestepsPerIteration); totalTimesteps += timesteps.size;"
\* The call returns once the workers hold at least the target between them,
\* with all they hold.
CollectTimesteps ==
    /\ pc = "collect"
    /\ Len(Gather(agents, Workers)) >= config.timestepsPerIteration
    /\ timesteps' = Gather(agents, Workers)
    /\ agents' = Taken(agents)
    /\ totalTimesteps' = totalTimesteps + Len(timesteps')
    /\ log' = [log EXCEPT
                 !.returned = [w \in Workers |-> @[w] \o TagsOf(timesteps', w)],
                 !.prev = log.events,
                 !.events = <<"CollectTimesteps">>,
                 !.iterations = @ + 1,
                 !.sinceSave = @ + Len(timesteps'),
                 !.decision = [made |-> FALSE, acc |-> 0, called |-> FALSE]]
    /\ pc' = AfterStep("collect")
    /\ UNCHANGED <<variant, config, fs, totalEpochs, cumulativeModelUpdates,
                   returnStats, net, env, runs, hist>>
    /\ UNCHANGED <<inferenceMutex, disableCollection, shouldRun, tsSinceSave,
                   expBuffer>>
    /\ UNCHANGED moreVars

\* Learner::AddNewExperience: the advantages are computed, the return
\* statistics incremented and the experience submitted to the buffer.
AddNewExperience ==
    /\ pc = "add"
    /\ returnStats' = [returnStats EXCEPT !.count = @ + 1]
    /\ expBuffer' = timesteps
    /\ log' = [log EXCEPT !.events = Append(@, "SubmitExperience")]
    /\ pc' = AfterStep("add")
    /\ UNCHANGED <<variant, config, fs, totalTimesteps, totalEpochs,
                   cumulativeModelUpdates, net, env, runs, hist>>
    /\ UNCHANGED <<agents, inferenceMutex, disableCollection, shouldRun,
                   tsSinceSave, timesteps>>
    /\ UNCHANGED moreVars

\* The workers whose inferenceMutex the learner does not hold yet.
Unlocked == {w \in Workers : inferenceMutex[w] # "learner"}

\* Before ppo->Learn.  part_001: "if (blockAgentInferDuringLearn)
\* agentMgr->disableCollection = true;".  part_000: "for (auto agent :
\* agentMgr->agents) agent->inferenceMutex.lock();", one lock at a time, each
\* waiting for its holder.
BlockInference ==
    /\ pc = "pause"
    /\ IF ~blockAgentInferDuringLearn
       THEN /\ pc' = AfterStep("pause")
            /\ UNCHANGED <<inferenceMutex, disableCollection>>
       ELSE IF variant = 1
       THEN /\ disableCollection' = TRUE
            /\ pc' = AfterStep("pause")
            /\ UNCHANGED inferenceMutex
       ELSE LET w == SetMin(Unlocked)
            IN  /\ inferenceMutex[w] = "free"
                /\ inferenceMutex' = [inferenceMutex EXCEPT ![w] = "learner"]
                /\ pc' = IF Unlocked = {w} THEN AfterStep("pause") ELSE "pause"
                /\ UNCHANGED disableCollection
    /\ log' = IF pc' = "pause" THEN log
              ELSE [log EXCEPT !.events = Append(@, "Learn")]
    /\ UNCHANGED ckptVarsButPc
    /\ UNCHANGED <<agents, shouldRun, tsSinceSave, timesteps, expBuffer>>
    /\ UNCHANGED moreVars

\* The catch clause with the exception swallowed and the loop body carried
\* on (a mutant).
OnLearnExceptionContinue(p) == AfterStep(p)

\* "catch (std::exception& e) { RG_ERR_CLOSE("Exception during
\* PPOLearner::Learn(): " << e.what()); }": the process ends.
OnLearnException(p) == "fatal"

\* "try { ppo->Learn(expBuffer, report); } catch (std::exception& e) {
\* RG_ERR_CLOSE(...) }": while pc = "learn" the batches are read from the
\* buffer and the parameters of the policy are modified.
PPOLearn ==
    /\ pc = "learn"
    /\ \E throws \in BOOLEAN :
          IF throws
          THEN /\ pc' = OnLearnException("learn")
               /\ log' = [log EXCEPT !.threw = TRUE]
               /\ UNCHANGED <<net, cumulativeModelUpdates>>
          ELSE /\ pc' = AfterStep("learn")
               /\ net' = SyncHalf([net EXCEPT !.w = [i \in FILE_NAMES |-> net.w[i] + 1]])
               /\ cumulativeModelUpdates' = cumulativeModelUpdates + 3
               /\ log' = [log EXCEPT !.events = Append(@, "LearnReturned")]
    /\ UNCHANGED <<variant, config, fs, totalTimesteps, totalEpochs,
                   returnStats, env, runs, hist>>
    /\ UNCHANGED <<agents, inferenceMutex, disableCollection, shouldRun,
                   tsSinceSave, timesteps, expBuffer>>
    /\ UNCHANGED moreVars

\* After ppo->Learn with the statements that end the pause left out (a
\* mutant): only "totalEpochs += config.ppo.epochs;" remains.
UnblockInferenceSkipped ==
    /\ pc = "resume"
    /\ totalEpochs' = totalEpochs + 2
    /\ pc' = AfterStep("resume")
    /\ UNCHANGED <<variant, config, fs, totalTimesteps, cumulativeModelUpdates,
                   returnStats, net, env, runs, hist>>
    /\ UNCHANGED <<agents, inferenceMutex, disableCollection, shouldRun,
                   tsSinceSave, timesteps, expBuffer, log>>
    /\ UNCHANGED moreVars

\* After ppo->Learn: the flag is cleared (part_001) or every inferenceMutex
\* unlocked (part_000); "totalEpochs += config.ppo.epochs;" (2 here).
UnblockInference ==
    /\ pc = "resume"
    /\ disableCollection' =
          IF blockAgentInferDuringLearn /\ variant = 1 THEN FALSE
          ELSE disableCollection
    /\ inferenceMutex' =
          IF blockAgentInferDuringLearn /\ variant = 0
          THEN [w \in Workers |-> "free"]
          ELSE inferenceMutex
    /\ totalEpochs' = totalEpochs + 2
    /\ pc' = AfterStep("resume")
    /\ UNCHANGED <<variant, config, fs, totalTimesteps, cumulativeModelUpdates,
                   returnStats, net, env, runs, hist>>
    /\ UNCHANGED <<agents, shouldRun, tsSinceSave, timesteps, expBuffer, log>>
    /\ UNCHANGED moreVars

\* The end of the loop body: the report, then "tsSinceSave +=
\* timestepsCollected; if (tsSinceSave > config.timestepsPerSave &&
\* !config.checkpointSaveFolder.empty()) { Save(); tsSinceSave = 0; }" and
\* ResetMetrics.
SaveIfNeeded ==
    /\ pc = "save"
    /\ LET acc == tsSinceSave + Len(timesteps)
           r == Save(variant, config, fs, LearnerStats, net)
       IN  IF SaveDue(acc, config)
           THEN /\ fs' = r.fs
                /\ pc' = IF r.ok THEN AfterStep("save") ELSE "fatal"
                /\ tsSinceSave' = IF r.ok THEN 0 ELSE acc
                /\ log' = [log EXCEPT
                             !.decision = [made |-> TRUE, acc |-> log.sinceSave,
                                           called |-> TRUE],
                             !.sinceSave = 0]
           ELSE /\ pc' = AfterStep("save")
                /\ tsSinceSave' = acc
                /\ log' = [log EXCEPT
                             !.decision = [made |-> TRUE, acc |-> log.sinceSave,
                                           called |-> FALSE]]
                /\ UNCHANGED fs
    /\ UNCHANGED <<variant, config, totalTimesteps, totalEpochs,
                   cumulativeModelUpdates, returnStats, net, env, runs, hist>>
    /\ UNCHANGED <<agents, inferenceMutex, disableCollection, shouldRun,
                   timesteps, expBuffer>>
    /\ UNCHANGED moreVars

\* "agentMgr->StopAgents();": the workers are told to stop ...
StopAgents ==
    /\ pc = "stop"
    /\ shouldRun' = FALSE
    /\ log' = [log EXCEPT !.stopCalls = @ + 1]
    /\ pc' = "join"
    /\ UNCHANGED ckptVarsButPc
    /\ UNCHANGED <<agents, inferenceMutex, disableCollection, tsSinceSave,
                   timesteps, expBuffer>>
    /\ UNCHANGED moreVars

\* ... and joined; then Learn returns.
JoinAgents ==
    /\ pc = "join"
    /\ \A w \in Workers : agents[w].pc = "exited"
    /\ pc' = "done"
    /\ UNCHANGED ckptVarsButPc
    /\ UNCHANGED learnVars
    /\ UNCHANGED moreVars

\* A worker begins a step: it is to run, collection is not disabled, and it
\* takes its inferenceMutex for the forward pass of the policy.
InferBegin(w) ==
    /\ agents[w].pc = "idle"
    /\ shouldRun
    /\ ~disableCollection
    /\ agents[w].seq < MaxSteps
    /\ inferenceMutex[w] = "free"
    /\ inferenceMutex' = [inferenceMutex EXCEPT ![w] = "agent"]
    /\ agents' = [agents EXCEPT ![w].pc = "infer"]
    /\ UNCHANGED ckptVars
    /\ UNCHANGED <<disableCollection, shouldRun, tsSinceSave, timesteps,
                   expBuffer, log>>
    /\ UNCHANGED moreVars

\* The forward pass is over: the lock is released, the game stepped and the
\* step recorded under the worker's next sequence tag.
InferEnd(w) ==
    /\ agents[w].pc = "infer"
    /\ inferenceMutex' = [inferenceMutex EXCEPT ![w] = "free"]
    /\ agents' = [agents EXCEPT ![w] =
                    [pc |-> "idle", seq |-> @.seq + 1,
                     pending |-> Append(@.pending, @.seq + 1)]]
    /\ UNCHANGED ckptVars
    /\ UNCHANGED <<disableCollection, shouldRun, tsSinceSave, timesteps,
                   expBuffer, log>>
    /\ UNCHANGED moreVars

\* A worker that is told to stop leaves its loop.
WorkerExit(w) ==
    /\ agents[w].pc = "idle"
    /\ ~shouldRun
    /\ agents' = [agents EXCEPT ![w].pc = "exited"]
    /\ UNCHANGED ckptVars
    /\ UNCHANGED <<inferenceMutex, disableCollection, shouldRun, tsSinceSave,
                   timesteps, expBuffer, log>>
    /\ UNCHANGED moreVars

LearnerStep ==
    \/ LearnBegin
    \/ LoopTest
    \/ CollectTimesteps
    \/ AddNewExperience
    \/ BlockInference
    \/ PPOLearn
    \/ UnblockInference
    \/ SaveIfNeeded
    \/ StopAgents
    \/ JoinAgents

NextLearn ==
    \/ LearnerStep
    \/ \E w \in Workers : InferBegin(w)
    \/ \E w \in Workers : InferEnd(w)
    \/ \E w \in Workers : WorkerExit(w)

SpecLearn == InitLearn /\ [][NextLearn]_vars

\* The learner's thread and every worker thread are scheduled again and again.
SpecLearnFair ==
    /\ SpecLearn
    /\ WF_vars(LearnerStep)
    /\ \A w \in Workers :
          WF_vars(InferBegin(w)) /\ WF_vars(InferEnd(w)) /\ WF_vars(WorkerExit(w))

\* ------------------------------------------------------------- properties
\* The k largest elements of a set of numbers.
TopK(S, k) == {x \in S : Cardinality({y \in S : y > x}) < k}

\* The state is covered by C1: part_001's Save, one folder for loading and
\* saving, empty at the start, K >= 1, every Save completed and at a
\* strictly higher totalTimesteps than the one before.
C1_Covered ==
    /\ variant = 1
    /\ config.checkpointLoadFolder = config.checkpointSaveFolder
    /\ config.checkpointSaveFolder # ""
    /\ config.checkpointsToKeep >= 1
    /\ hist.initEmpty
    /\ ~hist.interrupted
    /\ hist.increasing

\* C1: with checkpointLoadFolder = checkpointSaveFolder, an initially empty
\* folder and checkpointsToKeep = K >= 1, after n Saves at strictly
\* increasing totalTimesteps the folder holds exactly the min(n, K) most
\* recently saved checkpoint directories.
C1_Retention ==
    C1_Covered =>
        DOMAIN fs[config.checkpointSaveFolder].dirs =
            {to_string(t) : t \in TopK(hist.saved, config.checkpointsToKeep)}

\* C1's case: more Saves than checkpointsToKeep = 2 have completed.
C1_Witness ==
    /\ C1_Covered
    /\ hist.op = "Save"
    /\ config.checkpointsToKeep = 2
    /\ Cardinality(hist.saved) > 2

\* A name that is a well-formed integer: digits only.
WellFormed(nm) == Len(nm) > 0 /\ \A i \in 1..Len(nm) : IsDigit(nm[i])

\* The directory C2 says Load selects: the well-formed name of the highest
\* value, <<>> when no name is well-formed.
ExpectedSel(names) ==
    LET wf == {nm \in names : WellFormed(nm)}
    IN  IF wf = {} THEN <<>>
        ELSE CHOOSE nm \in wf :
                \A o \in wf : DigitsValue(nm, 1, Len(nm)) >= DigitsValue(o, 1, Len(o))

\* C2: Load selects the subdirectory whose name is the numerically highest
\* well-formed integer and loads from exactly that directory; a name that is
\* not a well-formed integer never influences the selection.
C2_SelectsHighestWellFormed ==
    hist.op = "Load" => hist.load.sel = ExpectedSel(hist.load.names)

\* C3: when Load has completed from a checkpoint that a Save wrote in full,
\* totalTimesteps, cumulativeModelUpdates, totalEpochs and the reward running
\* statistics equal the values held at the time of that Save.
C3_StatsRoundTrip ==
    (/\ hist.op = "Load"
     /\ pc = "ready"
     /\ hist.load.full
     /\ hist.load.sel \in {to_string(t) : t \in hist.saved}) =>
        LearnerStats = hist.load.held

\* C9: part_001's Load from a selected checkpoint directory that lacks the
\* stats file or one of the four model/optimizer files ends in a fatal error,
\* raised before any network or optimizer parameter has been overwritten.
C9_MissingFileFatal ==
    (variant = 1 /\ hist.op = "Load" /\ hist.load.missing) =>
        (pc = "fatal" /\ net = hist.load.netBefore)

\* C9's case: Load selected a directory an interrupted Save left, with the
\* stats file and the policy file (of other parameters than the current ones)
\* but without the last optimizer file.
C9_Witness ==
    /\ variant = 1
    /\ hist.op = "Load"
    /\ hist.load.missing
    /\ LET d == fs[config.checkpointLoadFolder].dirs
       IN  /\ hist.load.sel \in DOMAIN d
           /\ d[hist.load.sel].stats.present
           /\ d[hist.load.sel].files[1].present
           /\ d[hist.load.sel].files[1].w # hist.load.netBefore.w[1]
           /\ ~d[hist.load.sel].files[4].present

\* The parameter sizes the networks were constructed with.
ConstructedSizes == <<config.policyLayerSizes, config.criticLayerSizes>>

\* C10: loading a saved network whose per-parameter element counts differ
\* from those of the constructed network ends in a fatal error; LoadFrom
\* never returns normally leaving a network of other sizes than constructed.
C10_SizeMismatchFatal ==
    /\ (hist.op = "Load" /\ hist.load.mismatch) => pc = "fatal"
    /\ pc = "ready" => net.sizes = ConstructedSizes

\* C10's case: torch::load replaced the parameters by saved ones of another
\* size, and the comparison of the sizes ended the process.
C10_Witness ==
    /\ hist.op = "Load"
    /\ hist.load.mismatch
    /\ pc = "fatal"
    /\ net.sizes # ConstructedSizes

\* C4: no worker is inside its inference call, reading the parameters of the
\* policy, while PPOLearner::Learn is modifying them, on any device.
C4_NoInferenceDuringUpdate ==
    ~(pc = "learn" /\ \E w \in Workers : agents[w].pc = "infer")

\* The barrier of part_000 on an accelerator: the learner holds every
\* inferenceMutex while PPOLearner::Learn runs.
MutexBarrier ==
    (variant = 0 /\ blockAgentInferDuringLearn) => C4_NoInferenceDuringUpdate

\* The order of the buffer accesses within one iteration.
PhaseOrder == <<"CollectTimesteps", "SubmitExperience", "Learn", "LearnReturned">>

IsPrefix(a, b) == Len(a) <= Len(b) /\ SubSeq(b, 1, Len(a)) = a

\* C5: within each iteration the order is CollectTimesteps, then the submit of
\* AddNewExperience, then PPOLearner::Learn; the next iteration begins only
\* after that Learn has returned, and while Learn reads the batches the buffer
\* holds what this iteration submitted.
C5_PhaseSeparation ==
    /\ IsPrefix(log.events, PhaseOrder)
    /\ log.prev \in {<<>>, PhaseOrder}
    /\ pc = "learn" => (expBuffer = timesteps /\ Len(log.events) = 3)
    /\ pc = "add" => log.events = <<"CollectTimesteps">>

C5_Witness ==
    /\ pc = "learn"
    /\ log.iterations = 2
    /\ log.prev = PhaseOrder
    /\ expBuffer # <<>>

\* C6: CollectTimesteps returns a trajectory of at least the target length,
\* and over all collection cycles the records returned for a worker, followed
\* by those it still holds, are its tags 1, 2, ... in order, each once.
C6_CollectExact ==
    /\ pc = "add" => Len(timesteps) >= config.timestepsPerIteration
    /\ \A w \in Workers :
          log.returned[w] \o agents[w].pending = [i \in 1..agents[w].seq |-> i]

C6_Witness ==
    /\ pc = "add"
    /\ log.iterations = 2
    /\ \A w \in Workers : Len(TagsOf(timesteps, w)) >= 1
    /\ \E w \in Workers : Len(log.returned[w]) > Len(TagsOf(timesteps, w))
    /\ \E w \in Workers : agents[w].pc = "infer"

\* C7: with a timestepLimit L > 0, and workers that go on producing steps,
\* Learn leaves its loop (or the process ends in a fatal error); once the loop
\* is left totalTimesteps >= L; StopAgents has been called exactly once when
\* Learn joins the workers and returns, and never before; with L = 0 the loop
\* is never left.
C7_Terminates ==
    /\ (config.timestepLimit > 0) ~> (pc \in {"done", "fatal"})
    /\ [](pc \in {"stop", "join", "done"} =>
            (config.timestepLimit > 0 /\ totalTimesteps >= config.timestepLimit))
    /\ [](log.stopCalls = IF pc \in {"join", "done"} THEN 1 ELSE 0)

C7_Witness ==
    /\ pc = "done"
    /\ log.iterations = 2
    /\ totalTimesteps > config.timestepLimit
    /\ log.stopCalls = 1

\* The threshold the configuration asks for: timestepsPerSave as given to the
\* constructor, 0 standing for timestepsPerIteration.
Threshold ==
    IF env.timestepsPerSave = 0 THEN config.timestepsPerIteration
    ELSE env.timestepsPerSave

\* C8: at the end of an iteration Save is called exactly when a save folder is
\* configured and the timesteps collected since the last call of Save (or
\* since Learn began) exceed the threshold; tsSinceSave is 0 after a save and
\* the accumulated count otherwise.
C8_SaveDecision ==
    log.decision.made =>
        /\ log.decision.called <=>
              (config.checkpointSaveFolder # "" /\ log.decision.acc > Threshold)
        /\ pc # "fatal" =>
              tsSinceSave = IF log.decision.called THEN 0 ELSE log.decision.acc

C8_Witness ==
    /\ log.decision.made
    /\ log.decision.called
    /\ pc = "loop"
    /\ env.timestepsPerSave = 0
    /\ log.iterations = 2
    /\ log.decision.acc = 4
    /\ tsSinceSave = 0

\* C11: once PPOLearner::Learn has thrown the run has ended in a fatal error:
\* the last thing the iteration did is the call of Learn (Learn never
\* returned and was not called again), the end of the loop body (report,
\* callback, metrics, Save) was not reached, no checkpoint was written, and
\* no further iteration began.
C11_LearnThrowFatal ==
    log.threw =>
        /\ pc = "fatal"
        /\ log.events = <<"CollectTimesteps", "SubmitExperience", "Learn">>
        /\ ~log.decision.made
        /\ tsSinceSave = log.sinceSave - Len(timesteps)
        /\ expBuffer = timesteps

C11_Witness ==
    /\ log.threw
    /\ log.iterations = 2
    /\ config.checkpointSaveFolder # ""
    /\ \E w \in Workers : agents[w].pending # <<>>

\* C12: a Load that finds no subdirectory with a numeric name (the load
\* folder missing or without such a subdirectory) returns without error and
\* leaves the counters, the return statistics and the networks as they were;
\* with an empty checkpointLoadFolder the constructor does not call Load.
C12_NoCheckpointNoChange ==
    /\ (hist.op = "Load" /\ ~\E nm \in hist.load.names : WellFormed(nm)) =>
          /\ pc = "ready"
          /\ LearnerStats = FreshStats
          /\ net = hist.load.netBefore
    /\ config.checkpointLoadFolder = "" => hist.op # "Load"

\* The part of C12 that holds: no subdirectory whose name std::stoll accepts.
NothingParsedNoChange ==
    (hist.op = "Load" /\ ~\E nm \in hist.load.names : Stoll(nm).ok) =>
        /\ pc = "ready"
        /\ LearnerStats = FreshStats
        /\ net = hist.load.netBefore

\* ------------------------------------------------------- Learner::Learner
\* A configuration with nothing to load or save, for the specifications that
\* do not look at checkpoints.
PlainConfig ==
    [checkpointLoadFolder |-> "", checkpointSaveFolder |-> "",
     checkpointsToKeep |-> -1,
     policyLayerSizes |-> BaseArch[1], criticLayerSizes |-> BaseArch[2],
     halfPrecisionPolicy |-> FALSE,
     deviceIsCpu |-> TRUE, timestepLimit |-> 0, timestepsPerIteration |-> 1,
     timestepsPerSave |-> Normalize(0, 1)]

\* The Learner's members before the constructor's body has run.
Unconstructed ==
    /\ config = PlainConfig
    /\ env = [nanReturns |-> FALSE, timestepsPerSave |-> 0]
    /\ fs = [f \in Folders |-> [exists |-> FALSE, dirs |-> EmptyDirs]]
    /\ pc = "none"
    /\ totalTimesteps = 0
    /\ totalEpochs = 0
    /\ cumulativeModelUpdates = 0
    /\ returnStats = WelfordRunningStat(1)
    /\ net = FreshNet(config)
    /\ runs = 1
    /\ hist = [op |-> "none", saved |-> {}, last |-> -1, increasing |-> TRUE,
               interrupted |-> FALSE, initEmpty |-> TRUE, load |-> NoLoad]
    /\ NotLearning

\* LearnerDeviceType
LearnerDeviceType == {"AUTO", "CPU", "GPU_CUDA"}

\* What the constructor is given and what the machine offers: the options of
\* the LearnerConfig it reads, whether torch::cuda::is_available(), and
\* whether the accelerator accepts a tensor (only if CUDA is available).
Givens ==
    [standardizeOBS : BOOLEAN, deviceType : LearnerDeviceType,
     cuda : {[available |-> FALSE, works |-> FALSE],
             [available |-> TRUE, works |-> FALSE],
             [available |-> TRUE, works |-> TRUE]},
     loadFolderEmpty : BOOLEAN, sendMetrics : BOOLEAN]

InitCtor ==
    /\ variant \in {0, 1}
    /\ Unconstructed
    /\ \E g \in Givens :
          construction = [stage |-> "options", given |-> g, device |-> "cpu",
                          probed |-> {}, created |-> {}, python |-> FALSE]
    /\ buffer = NoBuffer
    /\ gae = NoGae
    /\ ppoRun = NoPpoRun
    /\ iter = NoIter
    /\ game = NoGame

\* The check of the options with the test of standardizeOBS left out (a
\* mutant).
OptionsRejectedNever(g) == FALSE

\* "if (config.standardizeOBS) RG_ERR_CLOSE("LearnerConfig.standardizeOBS has
\* not yet been implemented, sorry");"
OptionsRejected(g) == g.standardizeOBS

\* Whether "t = t.to(dev); t = t.cpu();" throws: a tensor cannot be moved to
\* an accelerator that is not there or does not work.
ToDeviceThrows(dev, g) == dev = "cuda" /\ ~(g.cuda.available /\ g.cuda.works)

\* "config.deviceType == GPU_CUDA || (config.deviceType == AUTO &&
\*  torch::cuda::is_available())"
WantsCuda(g) ==
    g.deviceType = "GPU_CUDA" \/ (g.deviceType = "AUTO" /\ g.cuda.available)

\* The actions below leave everything but `construction` alone.
OnlyConstruction ==
    /\ UNCHANGED <<ckptVars, learnVars>>
    /\ UNCHANGED <<buffer, gae, ppoRun, iter, game>>

\* The head of the constructor: the thread settings and (part_001) the Python
\* interpreter, the default of timestepsPerSave, the test of standardizeOBS.
CtorOptions ==
    /\ construction.stage = "options"
    /\ construction' =
          [construction EXCEPT
              !.python = (variant = 1),
              !.stage = IF OptionsRejected(construction.given)
                        THEN "fatal" ELSE "device"]
    /\ OnlyConstruction

\* The choice of the device.  The tensor of the test is moved to `device`,
\* which still is the CPU device the member was initialised with; the CUDA
\* device is assigned after the test.
CtorDevice ==
    /\ construction.stage = "device"
    /\ LET g == construction.given
           deviceTestFailed == ToDeviceThrows(construction.device, g)
       IN  construction' =
              IF WantsCuda(g)
              THEN IF ~g.cuda.available \/ deviceTestFailed
                   THEN [construction EXCEPT !.stage = "fatal"]
                   ELSE [construction EXCEPT
                            !.probed = @ \cup {construction.device},
                            !.device = "cuda",
                            !.stage = "buffer"]
              ELSE [construction EXCEPT !.device = "cpu", !.stage = "buffer"]
    /\ OnlyConstruction

\* "expBuffer = new ExperienceBuffer(...)" (after the test environment, which
\* is created and deleted again).
CtorBuffer ==
    /\ construction.stage = "buffer"
    /\ construction' = [construction EXCEPT !.created = @ \cup {"expBuffer"},
                                            !.stage = "ppo"]
    /\ OnlyConstruction

\* "ppo = new PPOLearner(...)"
CtorPPO ==
    /\ construction.stage = "ppo"
    /\ construction' = [construction EXCEPT !.created = @ \cup {"ppo"},
                                            !.stage = "agents"]
    /\ OnlyConstruction

\* "agentMgr = new ThreadAgentManager(...); agentMgr->CreateAgents(...)"
CtorAgents ==
    /\ construction.stage = "agents"
    /\ construction' = [construction EXCEPT
                           !.created = @ \cup {"agentMgr", "agents"},
                           !.stage = "load"]
    /\ OnlyConstruction

\* "if (!config.checkpointLoadFolder.empty()) Load();" (Load itself is the
\* action Construct; here it returns or ends the process), then, in
\* part_001, the MetricSender.
CtorLoad ==
    /\ construction.stage = "load"
    /\ \E loadFails \in {FALSE, ~construction.given.loadFolderEmpty} :
          construction' =
             IF loadFails THEN [construction EXCEPT !.stage = "fatal"]
             ELSE [construction EXCEPT
                      !.created =
                          IF variant = 1 /\ construction.given.sendMetrics
                          THEN @ \cup {"metricSender"} ELSE @,
                      !.stage = "constructed"]
    /\ OnlyConstruction

NextCtor ==
    \/ CtorOptions
    \/ CtorDevice
    \/ CtorBuffer
    \/ CtorPPO
    \/ CtorAgents
    \/ CtorLoad

SpecCtor == InitCtor /\ [][NextCtor]_vars

\* C13: with standardizeOBS = true the constructor ends in a fatal error
\* before the experience buffer, the PPO learner, the agent manager or any
\* agent has been created, and no worker thread runs.
C13_StandardizeObsFatal ==
    construction.given.standardizeOBS =>
        /\ construction.stage \in {"options", "fatal"}
        /\ construction.created = {}
        /\ ~shouldRun

C13_Witness ==
    /\ construction.given.standardizeOBS
    /\ construction.stage = "fatal"
    /\ construction.created = {}

\* C14: when GPU_CUDA is requested and CUDA is unavailable or the accelerator
\* fails the round trip, construction ends in a fatal error; a Learner for
\* which GPU_CUDA was requested never gets the CPU device; and the CUDA device
\* is selected only after a value was moved to that accelerator and back.
C14_NoSilentDegrade ==
    LET g == construction.given
        past == construction.stage \in
                    {"buffer", "ppo", "agents", "load", "constructed"}
    IN  /\ (g.deviceType = "GPU_CUDA" /\ ~(g.cuda.available /\ g.cuda.works))
              => ~past
        /\ (g.deviceType = "GPU_CUDA" /\ past) => construction.device = "cuda"
        /\ construction.device = "cuda" => "cuda" \in construction.probed

\* The parts of C14 that hold: no CUDA device without
\* torch::cuda::is_available(), and no CPU device when GPU_CUDA was requested.
NoCudaUnlessAvailable ==
    LET g == construction.given
        past == construction.stage \in
                    {"buffer", "ppo", "agents", "load", "constructed"}
    IN  /\ (g.deviceType = "GPU_CUDA" /\ ~g.cuda.available) => ~past
        /\ (g.deviceType = "GPU_CUDA" /\ past) => construction.device = "cuda"
        /\ construction.device = "cuda" => g.cuda.available

\* ------------------------------------------------------- ExperienceBuffer
\* Largest capacity (config.expBufferSize) of a buffer.
MaxCapacity == 3
\* Largest number of records submitted to one buffer.
MaxSubmitted == 5

\* The records a trajectory is made of, as far as the buffer can tell them
\* apart.
Records == {"a", "b"}

\* The batches one call submits.
Batches == UNION {[1..n -> Records] : n \in 1..2}

\* The last n elements of a sequence (all of it if it is shorter).
LastN(s, n) == IF Len(s) <= n THEN s ELSE SubSeq(s, Len(s) - n + 1, Len(s))

\* A submit that, over capacity, keeps the oldest records (a mutant).
SubmitKeepOldest(data, batch, capacity) ==
    SubSeq(data \o batch, 1,
           IF Len(data) + Len(batch) <= capacity THEN Len(data) + Len(batch)
           ELSE capacity)

\* ExperienceBuffer::SubmitExperience: all records are appended; over
\* capacity, the oldest are evicted until the size is the capacity.
SubmitExperience(data, batch, capacity) == LastN(data \o batch, capacity)

\* "expBuffer = new ExperienceBuffer(config.expBufferSize, ...)"
InitBuffer ==
    /\ variant \in {0, 1}
    /\ Unconstructed
    /\ \E c \in 1..MaxCapacity :
          buffer = [capacity |-> c, data |-> <<>>, submitted |-> <<>>]
    /\ construction = NoConstruction
    /\ gae = NoGae
    /\ ppoRun = NoPpoRun
    /\ iter = NoIter
    /\ game = NoGame

\* "expBuffer->SubmitExperience(expTensors);"
Submit ==
    /\ \E batch \in Batches :
          /\ Len(buffer.submitted) + Len(batch) <= MaxSubmitted
          /\ buffer' = [buffer EXCEPT
                          !.data = SubmitExperience(@, batch, buffer.capacity),
                          !.submitted = @ \o batch]
    /\ UNCHANGED <<ckptVars, learnVars>>
    /\ UNCHANGED <<construction, gae, ppoRun, iter, game>>

NextBuffer == Submit

SpecBuffer == InitBuffer /\ [][NextBuffer]_vars

\* C15: after any sequence of submits the size of the buffer is the smaller
\* of its capacity and the number of records submitted, and it holds the
\* most recently submitted records in the order of submission.
C15_MostRecent ==
    /\ Len(buffer.data) =
          (IF Len(buffer.submitted) < buffer.capacity
           THEN Len(buffer.submitted) ELSE buffer.capacity)
    /\ \A i \in 1..Len(buffer.data) :
          buffer.data[i] =
             buffer.submitted[Len(buffer.submitted) - Len(buffer.data) + i]

C15_Witness ==
    /\ buffer.capacity = 2
    /\ Len(buffer.submitted) = 5
    /\ buffer.submitted[3] # buffer.submitted[5]
    /\ buffer.data = <<buffer.submitted[4], buffer.submitted[5]>>

\* ------------------------------------------- AddNewExperience: advantages
\* Largest number of records of a trajectory.
MaxTraj == 3

\* How a step ends: the episode goes on, it terminates (done), or it is cut
\* off (truncated); after the last two the game is reset.
StepKinds == {"step", "done", "trunc"}

\* The observations of a trajectory, numbered: the state of record i is the
\* next state of record i - 1 while the episode goes on, and a new
\* observation (that of the reset game) after a done or truncated step; every
\* next state is a new observation.
RECURSIVE StateOf(_, _)
StateOf(kinds, i) ==
    IF i = 1 THEN 1
    ELSE IF kinds[i - 1] = "step" THEN StateOf(kinds, i - 1) + 1
    ELSE StateOf(kinds, i - 1) + 2

\* GameTrajectory: states, nextStates, rewards, dones and truncateds, one
\* record per step.
TrajectoryOf(kinds, rewards) ==
    [i \in 1..Len(kinds) |->
        [state |-> StateOf(kinds, i),
         nextState |-> StateOf(kinds, i) + 1,
         reward |-> rewards[i],
         done |-> IF kinds[i] = "done" THEN 1 ELSE 0,
         truncated |-> IF kinds[i] = "trunc" THEN 1 ELSE 0]]

Trajectories ==
    UNION {{TrajectoryOf(k, r) : k \in [1..n -> StepKinds], r \in [1..n -> {0, 2}]} :
              n \in 1..MaxTraj}

\* Value estimators (ppo->valueNet->Forward), as functions of the observation.
ValueEstimators == {"rising", "falling"}
Forward(v, obs) == IF v = "rising" THEN obs ELSE 3 - obs

\* "auto valInput = torch::cat({ trajData.states, torch::unsqueeze(
\*  trajData.nextStates[count - 1], 0) }); valPreds = Forward(valInput)": the
\* value of every state, then the value of the last record's next state.
ValPreds(v, traj) ==
    [i \in 1..Len(traj) + 1 |->
        IF i <= Len(traj) THEN Forward(v, traj[i].state)
        ELSE Forward(v, traj[Len(traj)].nextState)]

\* TorchFuncs::ComputeGAE, the backward pass from record i to the end: the
\* reward is divided by retStd; the next value of record i is
\* valPreds[i + 1]; delta = reward + gamma * next * (1 - done) - valPreds[i];
\* A = delta + gamma * lambda * (1 - done) * (1 - truncated) * A of record
\* i + 1.
RECURSIVE GaeFrom(_, _, _, _, _, _)
GaeFrom(traj, valPreds, gamma, lambda, retStd, i) ==
    IF i > Len(traj) THEN 0
    ELSE LET r == traj[i]
             delta == r.reward \div retStd + gamma * valPreds[i + 1] * (1 - r.done)
                      - valPreds[i]
         IN  delta + gamma * lambda * (1 - r.done) * (1 - r.truncated)
                     * GaeFrom(traj, valPreds, gamma, lambda, retStd, i + 1)

\* The return of record i: the discounted sum of the rewards up to the end
\* of its episode.
RECURSIVE ReturnFrom(_, _, _)
ReturnFrom(traj, gamma, i) ==
    IF i > Len(traj) THEN 0
    ELSE traj[i].reward + gamma * (1 - traj[i].done) * (1 - traj[i].truncated)
                          * ReturnFrom(traj, gamma, i + 1)

\* What ComputeGAE returns for each record: its advantage, its value target,
\* its return, and (for the properties) the next value it used.
ComputeGAE(traj, valPreds, gamma, lambda, retStd) ==
    [i \in 1..Len(traj) |->
        [advantage |-> GaeFrom(traj, valPreds, gamma, lambda, retStd, i),
         valueTarget |-> GaeFrom(traj, valPreds, gamma, lambda, retStd, i)
                         + valPreds[i],
         return |-> ReturnFrom(traj, gamma, i),
         nextValPred |-> valPreds[i + 1]]]

\* The values returnStats.GetSTD()[0] can have (whole numbers here, which
\* divide the rewards).
StdValues == {1, 2}

\* Learner::returnStats as far as AddNewExperience uses it: the number of
\* returns it has taken, the standard deviation it reports, and (for the
\* properties) the returns it was incremented with.
ReturnStatsStates ==
    {[count |-> 0, std |-> 1, taken |-> <<>>],
     [count |-> 3, std |-> 2, taken |-> <<>>]}

\* "float retStd = (config.standardizeReturns ? returnStats.GetSTD()[0] : 1);"
RetStd(standardizeReturns, stats) ==
    IF standardizeReturns THEN stats.std ELSE 1

\* A mutant of NumToIncrement: all returns are taken.
NumToIncrementAll(maxReturnsPerStatsInc, size) == size

\* "int numToIncrement = RS_MIN(config.maxReturnsPerStatsInc,
\*      returns.size());"
NumToIncrement(maxReturnsPerStatsInc, size) ==
    IF maxReturnsPerStatsInc < size THEN maxReturnsPerStatsInc ELSE size

\* WelfordRunningStat::Increment(returns, num): the first num returns are
\* taken into the statistics, whose standard deviation becomes newStd.
Increment(stats, returns, num, newStd) ==
    [count |-> stats.count + num,
     std |-> IF num = 0 THEN stats.std ELSE newStd,
     taken |-> stats.taken \o SubSeq(returns, 1, num)]

\* The settings of standardizeReturns and maxReturnsPerStatsInc, with the
\* statistics held when AddNewExperience is called.
ReturnSettings ==
    {[standardizeReturns |-> TRUE, maxReturnsPerStatsInc |-> m, stats |-> st] :
        m \in {1, 2, MaxTraj + 1}, st \in ReturnStatsStates}
    \cup
    {[standardizeReturns |-> FALSE, maxReturnsPerStatsInc |-> 1,
      stats |-> [count |-> 3, std |-> 2, taken |-> <<>>]]}

\* A collected trajectory handed to AddNewExperience (gaeGamma and gaeLambda
\* are 1 here).
InitGae ==
    /\ variant \in {0, 1}
    /\ Unconstructed
    /\ \E t \in Trajectories, v \in ValueEstimators, rs \in ReturnSettings :
          gae = [stage |-> "collected", traj |-> t, valueNet |-> v,
                 gamma |-> 1, lambda |-> 1, out |-> <<>>,
                 standardizeReturns |-> rs.standardizeReturns,
                 maxReturnsPerStatsInc |-> rs.maxReturnsPerStatsInc,
                 returnStats |-> rs.stats, statsBefore |-> rs.stats,
                 retStd |-> 0]
    /\ construction = NoConstruction
    /\ buffer = NoBuffer
    /\ ppoRun = NoPpoRun
    /\ iter = NoIter
    /\ game = NoGame

\* Learner::AddNewExperience up to the submit: the value predictions, the
\* advantages and the increment of the return statistics.
ComputeAdvantages ==
    /\ gae.stage = "collected"
    /\ \E newStd \in StdValues :
          LET retStd == RetStd(gae.standardizeReturns, gae.returnStats)
              out == ComputeGAE(gae.traj, ValPreds(gae.valueNet, gae.traj),
                                gae.gamma, gae.lambda, retStd)
              returns == [i \in 1..Len(out) |-> out[i].return]
          IN  gae' = [gae EXCEPT
                        !.stage = "computed",
                        !.retStd = retStd,
                        !.out = out,
                        !.returnStats =
                            IF gae.standardizeReturns
                            THEN Increment(@, returns,
                                           NumToIncrement(gae.maxReturnsPerStatsInc,
                                                          Len(returns)),
                                           newStd)
                            ELSE @]
    /\ UNCHANGED <<ckptVars, learnVars>>
    /\ UNCHANGED <<construction, buffer, ppoRun, iter, game>>

NextGae == ComputeAdvantages

SpecGae == InitGae /\ [][NextGae]_vars

\* The value of a record's own next observation.
OwnNextValue(i) == Forward(gae.valueNet, gae.traj[i].nextState)

\* C17: for every step that does not end its episode with done (where the next
\* value has factor (1 - done) = 0), truncated steps that are not the last
\* record included, the next value used in the step's residual is the value
\* estimate of the step's own next observation.
C17_BootstrapOwnNext ==
    gae.stage = "computed" =>
        \A i \in 1..Len(gae.traj) :
            gae.traj[i].done = 0 => gae.out[i].nextValPred = OwnNextValue(i)

\* The part of C17 that holds: the last record, and every record whose
\* episode goes on with the next record.
BootstrapOwnNextInEpisode ==
    gae.stage = "computed" =>
        \A i \in 1..Len(gae.traj) :
            (i = Len(gae.traj) \/ gae.traj[i].done + gae.traj[i].truncated = 0)
                => gae.out[i].nextValPred = OwnNextValue(i)

\* C16: at a step with done = 1 or truncated = 1 the accumulator is reset: the
\* advantage is the step's own residual, (standardized) reward + gamma *
\* (1 - done) * V(own next state) - V(state), whatever follows the step; with
\* done = 1 it is the reward minus V(state).
C16_ResetAtEpisodeEnd ==
    gae.stage = "computed" =>
        \A i \in 1..Len(gae.traj) :
            LET r == gae.traj[i]
            IN  (r.done = 1 \/ r.truncated = 1) =>
                    gae.out[i].advantage =
                        r.reward \div gae.retStd
                        + gae.gamma * (1 - r.done) * OwnNextValue(i)
                        - Forward(gae.valueNet, r.state)

\* The part of C16 that holds: with done = 1 the advantage is the reward
\* minus V(state); with truncated = 1 it is the residual with the next value
\* ComputeGAE was given, and nothing of what follows is added to it.
ResetWithGivenNextValue ==
    gae.stage = "computed" =>
        \A i \in 1..Len(gae.traj) :
            LET r == gae.traj[i]
            IN  (r.done = 1 \/ r.truncated = 1) =>
                    gae.out[i].advantage =
                        r.reward \div gae.retStd
                        + gae.gamma * (1 - r.done) * gae.out[i].nextValPred
                        - Forward(gae.valueNet, r.state)

\* ------------------------------------------------- half-precision policy
\* The policy the agents infer with: "config.halfPrecisionPolicy ?
\* ppo->policyHalf : ppo->policy".
InferencePolicy ==
    IF config.halfPrecisionPolicy THEN net.half.w ELSE net.w[1]

\* C18: whenever the Learner is constructed and outside Learn and LoadFrom
\* (after the PPOLearner's construction, after a completed update, after a
\* completed load), a half-precision copy exists exactly if it was asked
\* for, and its parameters are the half-precision conversion of the current
\* parameters of policy; the policy the agents infer with is that copy.
C18_HalfInSync ==
    pc \in {"ctor", "ready"} =>
        /\ net.half.exists = config.halfPrecisionPolicy
        /\ net.half.exists =>
              /\ net.half.w = BFloat16(net.w[1])
              /\ InferencePolicy = BFloat16(net.w[1])

\* A checkpoint was loaded into a Learner with a half-precision copy, and the
\* copy's parameters differ from the full-precision ones they were converted
\* from.
C18_Witness ==
    /\ pc = "ready"
    /\ net.half.exists
    /\ hist.op = "Load"
    /\ hist.load.sel # <<>>
    /\ net.w[1] = 1
    /\ net.half.w = 2

\* --------------------------------------------------------- PPOLearner::Learn
\* Largest config.epochs, number of batches GetAllBatchesShuffled returns, and
\* config.batchSize.
MaxEpochs == 2
MaxBatches == 2
MaxBatchSize == 4

\* PPOLearner::PPOLearner: "if (config.miniBatchSize == 0)
\*     config.miniBatchSize = config.batchSize;"
MiniBatchSizeOf(miniBatchSize, batchSize) ==
    IF miniBatchSize = 0 THEN batchSize ELSE miniBatchSize

\* The configurations of a constructed PPOLearner.
PPOConfigs ==
    {[epochs |-> e, batchSize |-> b, miniBatchSize |-> MiniBatchSizeOf(m, b),
      miniBatchSizeGiven |-> m] :
        e \in 1..MaxEpochs, b \in 1..MaxBatchSize, m \in 0..MaxBatchSize}

\* A number as the fraction num / den.
Fraction(n, d) == [num |-> n, den |-> d]

\* "float batchSizeRatio = config.miniBatchSize / config.batchSize;": both
\* are integer counts (batchSize is a dimension of view(), miniBatchSize is
\* compared with 0 and added to the index mbs), so the quotient is the
\* integer quotient, converted to float afterwards.
BatchSizeRatio(cfg) == Fraction(cfg.miniBatchSize \div cfg.batchSize, 1)

\* A mutant of ZeroGrad: the gradients are left as they are.
KeepGrad(g) == g

\* optimizer->zero_grad(): the gradient, the set of the contributions
\* accumulated in it, is emptied.
ZeroGrad(g) == {}

\* loss.backward() of the minibatch starting at mbs of batch `batch` of epoch
\* `epoch`, its loss scaled by `scale`: the contribution is added to the
\* gradient.
Backward(g, epoch, batch, mbs, scale) ==
    g \cup {[epoch |-> epoch, batch |-> batch, mbs |-> mbs, scale |-> scale]}

Nets == {"policy", "valueNet"}

\* A mutant of Slice: the end index is included.
SliceInclusive(start, stop, size) ==
    {k \in 0..size - 1 : start <= k /\ k <= stop}

\* tensor.slice(0, start, stop) of a tensor of `size` rows: the rows start,
\* ..., stop - 1 that exist.
Slice(start, stop, size) ==
    {k \in 0..size - 1 : start <= k /\ k < stop}

\* Learn is called on a constructed PPOLearner: no gradient has been computed
\* (or the last Learn has zeroed them).
InitPPO ==
    /\ variant \in {0, 1}
    /\ Unconstructed
    /\ \E cfg \in PPOConfigs, nb \in 0..MaxBatches :
          ppoRun = [stage |-> "start", config |-> cfg, numBatches |-> nb,
                    batchSizeRatio |-> Fraction(0, 1),
                    epoch |-> 0, batch |-> 0, mbs |-> 0,
                    grad |-> [n \in Nets |-> {}],
                    clipped |-> [n \in Nets |-> FALSE],
                    atFirstBackward |-> <<>>,
                    slices |-> <<>>,
                    steps |-> <<>>,
                    numIterations |-> 0]
    /\ construction = NoConstruction
    /\ buffer = NoBuffer
    /\ gae = NoGae
    /\ iter = NoIter
    /\ game = NoGame

OnlyPPO ==
    /\ UNCHANGED <<ckptVars, learnVars>>
    /\ UNCHANGED <<construction, buffer, gae, iter, game>>

\* Lines 41-57: the locals, batchSizeRatio.
PPOStart ==
    /\ ppoRun.stage = "start"
    /\ ppoRun' = [ppoRun EXCEPT !.stage = "epoch",
                                !.batchSizeRatio = BatchSizeRatio(ppoRun.config),
                                !.epoch = 0]
    /\ OnlyPPO

\* Lines 60-63: the test of the epoch loop and GetAllBatchesShuffled.
PPOEpoch ==
    /\ ppoRun.stage = "epoch"
    /\ ppoRun' = IF ppoRun.epoch < ppoRun.config.epochs
                 THEN [ppoRun EXCEPT !.stage = "batch", !.batch = 0]
                 ELSE [ppoRun EXCEPT !.stage = "report"]
    /\ OnlyPPO

\* Lines 65-74: the next batch, if there is one: both optimizers' zero_grad.
PPOBatch ==
    /\ ppoRun.stage = "batch"
    /\ ppoRun' = IF ppoRun.batch < ppoRun.numBatches
                 THEN [ppoRun EXCEPT
                         !.stage = "minibatch",
                         !.mbs = 0,
                         !.slices = <<>>,
                         !.grad = [n \in Nets |-> ZeroGrad(ppoRun.grad[n])],
                         !.clipped = [n \in Nets |-> FALSE]]
                 ELSE [ppoRun EXCEPT !.stage = "epoch", !.epoch = @ + 1]
    /\ OnlyPPO

\* Lines 76-145: one minibatch: ppoLoss (scaled by batchSizeRatio) and
\* valueLoss (not scaled) are propagated back; then mbs += miniBatchSize.
PPOMiniBatch ==
    /\ ppoRun.stage = "minibatch"
    /\ ppoRun' =
         IF ppoRun.mbs < ppoRun.config.batchSize
         THEN [ppoRun EXCEPT
                 !.atFirstBackward =
                     IF ppoRun.mbs = 0 THEN Append(@, ppoRun.grad) ELSE @,
                 !.grad = [n \in Nets |->
                             Backward(ppoRun.grad[n], ppoRun.epoch, ppoRun.batch,
                                      ppoRun.mbs,
                                      IF n = "policy" THEN ppoRun.batchSizeRatio
                                      ELSE Fraction(1, 1))],
                 !.clipped = [n \in Nets |-> FALSE],
                 !.slices = Append(@, Slice(ppoRun.mbs,
                                            ppoRun.mbs + ppoRun.config.miniBatchSize,
                                            ppoRun.config.batchSize)),
                 !.mbs = @ + ppoRun.config.miniBatchSize]
         ELSE [ppoRun EXCEPT !.stage = "clip"]
    /\ OnlyPPO

\* Lines 147-148: clip_grad_norm_ of valueNet and of policy.
PPOClip ==
    /\ ppoRun.stage = "clip"
    /\ ppoRun' = [ppoRun EXCEPT !.stage = "step",
                                !.clipped = [n \in Nets |-> TRUE]]
    /\ OnlyPPO

\* What an optimizer's step() applies: the gradient as it is.
StepOf(n) ==
    [net |-> n, epoch |-> ppoRun.epoch, batch |-> ppoRun.batch,
     grad |-> ppoRun.grad[n], clipped |-> ppoRun.clipped[n]]

\* Lines 150-153: policyOptimizer->step(), valueOptimizer->step(),
\* numIterations += 1, and on to the next batch.
PPOStep ==
    /\ ppoRun.stage = "step"
    /\ ppoRun' = [ppoRun EXCEPT
                    !.stage = "batch",
                    !.steps = @ \o <<StepOf("policy"), StepOf("valueNet")>>,
                    !.numIterations = @ + 1,
                    !.batch = @ + 1]
    /\ OnlyPPO

\* "numIterations = RS_MAX(numIterations, 1);"
AtLeastOne(n) == IF n > 1 THEN n ELSE 1

\* Lines 155-200: "numIterations = RS_MAX(numIterations, 1);", the report
\* with "cumulativeModelUpdates += numIterations;", both optimizers'
\* zero_grad, and the return.
PPOReturn ==
    /\ ppoRun.stage = "report"
    /\ ppoRun' = [ppoRun EXCEPT
                    !.stage = "returned",
                    !.numIterations = AtLeastOne(@),
                    !.grad = [n \in Nets |-> ZeroGrad(ppoRun.grad[n])],
                    !.clipped = [n \in Nets |-> FALSE]]
    /\ cumulativeModelUpdates' =
          cumulativeModelUpdates + AtLeastOne(ppoRun.numIterations)
    /\ UNCHANGED <<variant, config, fs, pc, totalTimesteps, totalEpochs,
                   returnStats, net, env, runs, hist>>
    /\ UNCHANGED learnVars
    /\ UNCHANGED <<construction, buffer, gae, iter, game>>

NextPPO ==
    \/ PPOStart
    \/ PPOEpoch
    \/ PPOBatch
    \/ PPOMiniBatch
    \/ PPOClip
    \/ PPOStep
    \/ PPOReturn

SpecPPO == InitPPO /\ [][NextPPO]_vars

\* The starts of the minibatches of one batch.
MiniBatchStarts ==
    {k \in 0..ppoRun.config.batchSize - 1 : k % ppoRun.config.miniBatchSize = 0}

\* The batches completed so far, in order.
BatchesDone ==
    ppoRun.epoch * ppoRun.numBatches
    + (IF ppoRun.stage \in {"batch", "minibatch", "clip", "step"}
       THEN ppoRun.batch ELSE 0)

\* C19: every step applies a clipped gradient that consists of exactly the
\* contributions of all minibatches of its own batch (none of another batch);
\* the gradients are zero at the first backward pass of every batch; each
\* completed batch has taken exactly one policy step and one value step, in
\* the order of the batches; both gradients are zero when Learn has returned.
C19_GradientsPerBatch ==
    /\ \A i \in 1..Len(ppoRun.steps) :
          LET s == ppoRun.steps[i]
          IN  /\ s.clipped
              /\ {[epoch |-> c.epoch, batch |-> c.batch, mbs |-> c.mbs] :
                     c \in s.grad}
                 = {[epoch |-> s.epoch, batch |-> s.batch, mbs |-> k] :
                     k \in MiniBatchStarts}
              /\ s.net = IF i % 2 = 1 THEN "policy" ELSE "valueNet"
              /\ s.epoch * ppoRun.numBatches + s.batch = (i - 1) \div 2
    /\ Len(ppoRun.steps) = 2 * BatchesDone
    /\ ppoRun.stage # "returned" => ppoRun.numIterations = BatchesDone
    /\ \A i \in 1..Len(ppoRun.atFirstBackward) :
          \A n \in Nets : ppoRun.atFirstBackward[i][n] = {}
    /\ ppoRun.stage = "returned" =>
          /\ \A n \in Nets : ppoRun.grad[n] = {}
          /\ BatchesDone = ppoRun.config.epochs * ppoRun.numBatches

\* Learn has returned after two epochs of two batches of several minibatches.
C19_Witness ==
    /\ ppoRun.stage = "returned"
    /\ ppoRun.config.epochs = 2
    /\ ppoRun.numBatches = 2
    /\ ppoRun.config.miniBatchSize = 2
    /\ ppoRun.config.batchSize = 4
    /\ Len(ppoRun.steps) = 8
    /\ Cardinality(ppoRun.steps[3].grad) = 2

\* C20: for a miniBatchSize dividing batchSize, the factor the policy loss
\* of every minibatch is scaled by is the exact fraction miniBatchSize /
\* batchSize: it is not 0, and the factors of the minibatches of one batch
\* sum to 1.
C20_ExactFraction ==
    (/\ ppoRun.stage # "start"
     /\ ppoRun.config.batchSize % ppoRun.config.miniBatchSize = 0) =>
        LET f == ppoRun.batchSizeRatio
        IN  /\ f.num * ppoRun.config.batchSize
               = f.den * ppoRun.config.miniBatchSize
            /\ f.num # 0
            /\ Cardinality(MiniBatchStarts) * f.num = f.den

\* The part of C20 that holds: with miniBatchSize equal to batchSize (or 0,
\* which the constructor replaces by batchSize) the factor is 1, and every
\* policy contribution is scaled by batchSizeRatio.
FactorOneForWholeBatch ==
    /\ (/\ ppoRun.stage # "start"
        /\ ppoRun.config.miniBatchSize = ppoRun.config.batchSize) =>
           ppoRun.batchSizeRatio = Fraction(1, 1)
    /\ \A c \in ppoRun.grad["policy"] : c.scale = ppoRun.batchSizeRatio

\* ----------------------------------------------------------- minibatches
\* Learn runs on the coordinator's thread: it takes its next step.
SpecPPOFair == SpecPPO /\ WF_vars(NextPPO)

\* The minibatch loop of the current batch has ended.
MiniBatchLoopDone == ppoRun.stage \in {"clip", "step"}

MiniBatchesCoverBatch ==
    LET b == ppoRun.config.batchSize
        m == ppoRun.config.miniBatchSize
    IN  /\ m >= 1
        /\ ppoRun.config.miniBatchSizeGiven = 0 => m = b
        /\ (MiniBatchLoopDone /\ b % m = 0) =>
              /\ Len(ppoRun.slices) = b \div m
              /\ \A j \in 1..Len(ppoRun.slices) :
                    ppoRun.slices[j] = (j - 1) * m .. j * m - 1
              /\ \A k \in 0..b - 1 :
                    Cardinality({j \in 1..Len(ppoRun.slices) :
                                    k \in ppoRun.slices[j]}) = 1
        /\ (MiniBatchLoopDone /\ ppoRun.config.miniBatchSizeGiven = 0) =>
              Len(ppoRun.slices) = 1

\* C21: with miniBatchSize dividing batchSize the minibatches of a batch are
\* the ranges [0,m), [m,2m), ..., each record of the batch in exactly one of
\* them, batchSize / miniBatchSize of them; a miniBatchSize of 0 has been
\* replaced by batchSize, so there is then one minibatch per batch; and Learn
\* returns.
C21_MiniBatchLoop ==
    /\ []MiniBatchesCoverBatch
    /\ <>(ppoRun.stage = "returned")

\* A batch of 4 records was processed in 2 minibatches, and a Learner
\* configured with miniBatchSize 0 has processed a batch.
C21_Witness ==
    /\ MiniBatchLoopDone
    /\ ppoRun.config.batchSize = 4
    /\ ppoRun.slices = <<{0, 1}, {2, 3}>>
    /\ ppoRun.config.miniBatchSizeGiven = 2
    /\ ppoRun.epoch = 1

\* ------------------------------------------- Learner::Learn: the report
\* Largest number of iterations of the loop, and longest measured time.
MaxIter == 3
MaxTime == 2

Max(a, b) == IF a >= b THEN a ELSE b

\* What a run is given besides the configuration: an iteration callback or
\* none, config.sendMetrics (part_001 only).
IterGivens ==
    {[callback |-> cb, sendMetrics |-> sm] :
        cb \in BOOLEAN, sm \in BOOLEAN}

\* Learn has started the agents and is at the test of its loop; the
\* checkpoints go to folder "A".
InitIter ==
    /\ variant \in {0, 1}
    /\ \E cpu \in BOOLEAN :
          config = [PlainConfig EXCEPT !.checkpointLoadFolder = "A",
                                       !.checkpointSaveFolder = "A",
                                       !.deviceIsCpu = cpu,
                                       !.timestepLimit = MaxIter]
    /\ env = [nanReturns |-> FALSE, timestepsPerSave |-> 0]
    /\ fs = [f \in Folders |-> [exists |-> f = "A", dirs |-> EmptyDirs]]
    /\ pc = "ready"
    /\ totalTimesteps = 0
    /\ totalEpochs = 0
    /\ cumulativeModelUpdates = 0
    /\ returnStats = WelfordRunningStat(1)
    /\ net = FreshNet(config)
    /\ runs = 1
    /\ hist = [op |-> "none", saved |-> {}, last |-> -1, increasing |-> TRUE,
               interrupted |-> FALSE, initEmpty |-> TRUE, load |-> NoLoad]
    /\ NotLearning
    /\ \E g \in IterGivens :
          /\ variant = 0 => ~g.sendMetrics
          /\ iter = [pc |-> "loop", given |-> g, iteration |-> 0,
                     events |-> <<>>, previous |-> <<>>,
                     stepping |-> [w \in Workers |-> FALSE],
                     raced |-> {},
                     relCollectionTime |-> 0, ppoLearnTime |-> 0,
                     lastIterationTime |-> 0, trueCollectionTime |-> 0]
    /\ construction = NoConstruction
    /\ buffer = NoBuffer
    /\ gae = NoGae
    /\ ppoRun = NoPpoRun
    /\ game = NoGame

\* What no step of this part of Learn changes.
IterFrame ==
    /\ UNCHANGED <<variant, config, pc, cumulativeModelUpdates, returnStats,
                   net, env, runs, hist>>
    /\ UNCHANGED <<agents, shouldRun, timesteps, expBuffer, log>>
    /\ UNCHANGED <<construction, buffer, gae, ppoRun, game>>

\* A mutant of IterAfter: the callback is called after the save.
IterAfterCallbackLate(p) ==
    CASE p = "metrics" -> "send"
      [] p = "send" -> "save"
      [] p = "save" -> "callback"
      [] p = "callback" -> "reset"
      [] p = "reset" -> "loop"

\* The position that follows position p in the second half of the loop's
\* body: GetMetrics and the times, the iteration callback, the metric
\* sender, the save, ResetMetrics, the loop test.
IterAfter(p) ==
    CASE p = "metrics" -> "callback"
      [] p = "callback" -> "send"
      [] p = "send" -> "save"
      [] p = "save" -> "reset"
      [] p = "reset" -> "loop"

\* The test of the while loop.
IterLoopTest ==
    /\ iter.pc = "loop"
    /\ iter' = [iter EXCEPT !.pc =
                  IF LoopCond(totalTimesteps, config.timestepLimit)
                  THEN "collect" ELSE "stop"]
    /\ UNCHANGED <<fs, totalTimesteps, totalEpochs, disableCollection,
                   inferenceMutex, tsSinceSave>>
    /\ IterFrame

\* "GameTrajectory timesteps = agentMgr->CollectTimesteps(...); double
\* relCollectionTime = epochTimer.Elapsed(); totalTimesteps +=
\* timestepsCollected;" (one timestep is collected here).
IterCollect ==
    /\ iter.pc = "collect"
    /\ \E t \in 1..MaxTime :
          iter' = [iter EXCEPT !.pc = "add",
                               !.iteration = @ + 1,
                               !.previous = iter.events,
                               !.events = <<"CollectTimesteps">>,
                               !.relCollectionTime = t]
    /\ totalTimesteps' = totalTimesteps + 1
    /\ UNCHANGED <<fs, totalEpochs, disableCollection, inferenceMutex,
                   tsSinceSave>>
    /\ IterFrame

\* "AddNewExperience(timesteps);"
IterAdd ==
    /\ iter.pc = "add"
    /\ iter' = [iter EXCEPT !.pc = "pause",
                            !.events = Append(@, "AddNewExperience")]
    /\ UNCHANGED <<fs, totalTimesteps, totalEpochs, disableCollection,
                   inferenceMutex, tsSinceSave>>
    /\ IterFrame

\* Before ppo->Learn: the agents are kept from inferring if the device is
\* not the CPU (part_001: disableCollection; part_000: every inferenceMutex,
\* which no agent holds between two of its steps).
IterPause ==
    /\ iter.pc = "pause"
    /\ iter' = [iter EXCEPT !.pc = "learn"]
    /\ disableCollection' =
          IF blockAgentInferDuringLearn /\ variant = 1 THEN TRUE
          ELSE disableCollection
    /\ inferenceMutex' =
          IF blockAgentInferDuringLearn /\ variant = 0
          THEN [w \in Workers |-> "learner"]
          ELSE inferenceMutex
    /\ UNCHANGED <<fs, totalTimesteps, totalEpochs, tsSinceSave>>
    /\ IterFrame

\* "try { ppo->Learn(expBuffer, report); } catch (...) { RG_ERR_CLOSE }"
IterLearn ==
    /\ iter.pc = "learn"
    /\ \E throws \in BOOLEAN :
          iter' = IF throws THEN [iter EXCEPT !.pc = OnLearnException("learn")]
                  ELSE [iter EXCEPT !.pc = "resume",
                                    !.events = Append(@, "Learn")]
    /\ UNCHANGED <<fs, totalTimesteps, totalEpochs, disableCollection,
                   inferenceMutex, tsSinceSave>>
    /\ IterFrame

\* After ppo->Learn the agents may infer again; "totalEpochs +=
\* config.ppo.epochs;" (2 here); "double ppoLearnTime =
\* ppoLearnTimer.Elapsed();".
IterResume ==
    /\ iter.pc = "resume"
    /\ \E t \in 1..MaxTime :
          iter' = [iter EXCEPT !.pc = "metrics", !.ppoLearnTime = t]
    /\ disableCollection' =
          IF blockAgentInferDuringLearn /\ variant = 1 THEN FALSE
          ELSE disableCollection
    /\ inferenceMutex' =
          IF blockAgentInferDuringLearn /\ variant = 0
          THEN [w \in Workers |-> "free"]
          ELSE inferenceMutex
    /\ totalEpochs' = totalEpochs + 2
    /\ UNCHANGED <<fs, totalTimesteps, tsSinceSave>>
    /\ IterFrame

\* The calls of the agent manager that read or reset the metrics of the
\* games, with the workers that are inside GameInst::Step at the call.
MetricsCall(name) ==
    IF \E w \in Workers : iter.stepping[w]
    THEN iter.raced \cup {name} ELSE iter.raced

\* part_001: "double trueCollectionTime = RS_MAX(agentMgr->lastIterationTime,
\* relCollectionTime); if (blockAgentInferDuringLearn) trueCollectionTime -=
\* ppoLearnTime;".  part_000 divides by collectionTime.
TrueCollectionTime(last, rel, learn) ==
    IF variant = 0 THEN rel
    ELSE IF blockAgentInferDuringLearn THEN Max(last, rel) - learn
    ELSE Max(last, rel)

\* "agentMgr->GetMetrics(report);", the times and the rates of the report.
IterGetMetrics ==
    /\ iter.pc = "metrics"
    /\ \E last \in 0..MaxTime :
          iter' = [iter EXCEPT
                     !.pc = IterAfter("metrics"),
                     !.events = Append(@, "GetMetrics"),
                     !.raced = MetricsCall("GetMetrics"),
                     !.lastIterationTime = last,
                     !.trueCollectionTime =
                         TrueCollectionTime(last, iter.relCollectionTime,
                                            iter.ppoLearnTime)]
    /\ UNCHANGED <<fs, totalTimesteps, totalEpochs, disableCollection,
                   inferenceMutex, tsSinceSave>>
    /\ IterFrame

\* "if (iterationCallback) iterationCallback(this, report);" and the display
\* of the report.
IterCallback ==
    /\ iter.pc = "callback"
    /\ iter' = [iter EXCEPT
                  !.pc = IterAfter("callback"),
                  !.events = IF iter.given.callback
                             THEN Append(@, "Callback") ELSE @]
    /\ UNCHANGED <<fs, totalTimesteps, totalEpochs, disableCollection,
                   inferenceMutex, tsSinceSave>>
    /\ IterFrame

\* part_001: "if (config.sendMetrics) metricSender->Send(report);"
IterSend ==
    /\ iter.pc = "send"
    /\ iter' = [iter EXCEPT
                  !.pc = IterAfter("send"),
                  !.events = IF variant = 1 /\ iter.given.sendMetrics
                             THEN Append(@, "Send") ELSE @]
    /\ UNCHANGED <<fs, totalTimesteps, totalEpochs, disableCollection,
                   inferenceMutex, tsSinceSave>>
    /\ IterFrame

\* "tsSinceSave += timestepsCollected; if (tsSinceSave >
\* config.timestepsPerSave && !config.checkpointSaveFolder.empty()) { Save();
\* tsSinceSave = 0; }"
IterSave ==
    /\ iter.pc = "save"
    /\ LET acc == tsSinceSave + 1
           r == Save(variant, config, fs, LearnerStats, net)
       IN  IF SaveDue(acc, config)
           THEN /\ fs' = r.fs
                /\ tsSinceSave' = IF r.ok THEN 0 ELSE acc
                /\ iter' = [iter EXCEPT
                              !.pc = IF r.ok THEN IterAfter("save") ELSE "fatal",
                              !.events = Append(@, "Save")]
           ELSE /\ tsSinceSave' = acc
                /\ iter' = [iter EXCEPT !.pc = IterAfter("save")]
                /\ UNCHANGED fs
    /\ UNCHANGED <<totalTimesteps, totalEpochs, disableCollection,
                   inferenceMutex>>
    /\ IterFrame

\* "agentMgr->ResetMetrics();"
IterReset ==
    /\ iter.pc = "reset"
    /\ iter' = [iter EXCEPT !.pc = IterAfter("reset"),
                            !.events = Append(@, "ResetMetrics"),
                            !.raced = MetricsCall("ResetMetrics")]
    /\ UNCHANGED <<fs, totalTimesteps, totalEpochs, disableCollection,
                   inferenceMutex, tsSinceSave>>
    /\ IterFrame

\* "agentMgr->StopAgents();" and the return of Learn.
IterStop ==
    /\ iter.pc = "stop"
    /\ \A w \in Workers : ~iter.stepping[w]
    /\ iter' = [iter EXCEPT !.pc = "done"]
    /\ UNCHANGED <<fs, totalTimesteps, totalEpochs, disableCollection,
                   inferenceMutex, tsSinceSave>>
    /\ IterFrame

\* A worker has inferred its actions (it may when collection is not disabled
\* and the learner does not hold its inferenceMutex) and enters
\* GameInst::Step for its games.
IterStepBegin(w) ==
    /\ iter.pc \notin {"stop", "done", "fatal"}
    /\ ~iter.stepping[w]
    /\ ~disableCollection
    /\ inferenceMutex[w] = "free"
    /\ iter' = [iter EXCEPT !.stepping[w] = TRUE]
    /\ UNCHANGED <<fs, totalTimesteps, totalEpochs, disableCollection,
                   inferenceMutex, tsSinceSave>>
    /\ IterFrame

\* The worker's GameInst::Step calls have returned.
IterStepEnd(w) ==
    /\ iter.pc # "fatal"
    /\ iter.stepping[w]
    /\ iter' = [iter EXCEPT !.stepping[w] = FALSE]
    /\ UNCHANGED <<fs, totalTimesteps, totalEpochs, disableCollection,
                   inferenceMutex, tsSinceSave>>
    /\ IterFrame

NextIter ==
    \/ IterLoopTest
    \/ IterCollect
    \/ IterAdd
    \/ IterPause
    \/ IterLearn
    \/ IterResume
    \/ IterGetMetrics
    \/ IterCallback
    \/ IterSend
    \/ IterSave
    \/ IterReset
    \/ IterStop
    \/ \E w \in Workers : IterStepBegin(w)
    \/ \E w \in Workers : IterStepEnd(w)

SpecIter == InitIter /\ [][NextIter]_vars

\* The calls of one complete iteration, given whether Save was called in it.
IterationCalls(saved) ==
    <<"CollectTimesteps", "AddNewExperience", "Learn", "GetMetrics">>
    \o (IF iter.given.callback THEN <<"Callback">> ELSE <<>>)
    \o (IF variant = 1 /\ iter.given.sendMetrics THEN <<"Send">> ELSE <<>>)
    \o (IF saved THEN <<"Save">> ELSE <<>>)
    \o <<"ResetMetrics">>

\* C22: the calls of every iteration are, in this order, CollectTimesteps,
\* AddNewExperience, PPOLearner::Learn, GetMetrics, the iteration callback
\* (once, if one is set), the metric sender's Send, Save, ResetMetrics; an
\* iteration that has come to its end has made them all, ResetMetrics last,
\* and so had the iteration before when CollectTimesteps is called again.
C22_CallbackOrder ==
    /\ \E saved \in BOOLEAN :
          /\ IsPrefix(iter.events, IterationCalls(saved))
          /\ iter.pc \in {"reset", "loop", "stop", "done"} =>
                \/ iter.iteration = 0
                \/ IsPrefix(IterationCalls(saved),
                            iter.events \o <<"ResetMetrics">>)
    /\ iter.pc \in {"loop", "stop", "done"} /\ iter.iteration > 0 =>
          iter.events[Len(iter.events)] = "ResetMetrics"
    /\ iter.iteration > 1 =>
          /\ iter.previous # <<>>
          /\ iter.previous[Len(iter.previous)] = "ResetMetrics"
          /\ \E saved \in BOOLEAN : iter.previous = IterationCalls(saved)

\* The second iteration has called the callback, Send and Save, and has come
\* to its end.
C22_Witness ==
    /\ iter.pc = "loop"
    /\ iter.iteration = 2
    /\ iter.events = <<"CollectTimesteps", "AddNewExperience", "Learn",
                       "GetMetrics", "Callback", "Send", "Save",
                       "ResetMetrics">>

\* C23: whenever Learn calls GetMetrics or ResetMetrics, no worker is inside
\* GameInst::Step.
C23_MetricsQuiesced == iter.raced = {}

\* What does hold: while collection is disabled during ppo->Learn (part_001,
\* device not the CPU) no worker enters GameInst::Step; the flag is cleared
\* before GetMetrics is called.
NoCollectionWhenDisabled ==
    /\ disableCollection => iter.pc \in {"learn", "resume", "fatal"}
    /\ iter.pc \in {"metrics", "callback", "send", "save", "reset"} =>
          /\ ~disableCollection
          /\ \A w \in Workers : inferenceMutex[w] = "free"

\* ------------------------------------------------------------ GameInst
\* Largest number of GameInst::Step calls.
MaxGameSteps == 4

\* The rewards a player can get in a step (even, so that the mean over one
\* or two players is a whole number).
PlayerRewards == {0, 2}

\* AvgTracker: a running total and the number of values in it.
AvgTracker == [total |-> 0, count |-> 0]
AvgAdd(t, val, n) == [total |-> t.total + val, count |-> t.count + n]

\* The sum of a sequence of numbers.
RECURSIVE SeqSum(_)
SeqSum(s) == IF s = <<>> THEN 0 ELSE s[1] + SeqSum(Tail(s))

\* GameInst::Start on a new GameInst of a match of 1 or 2 players: the
\* accumulators are 0.
InitGame ==
    /\ variant \in {0, 1}
    /\ Unconstructed
    /\ \E pa \in {1, 2} :
          game = [stage |-> "running", playerAmount |-> pa,
                  curEpRew |-> 0, curEPLen |-> 0,
                  avgStepRew |-> AvgTracker, avgEpRew |-> AvgTracker,
                  avgEpLen |-> AvgTracker, totalSteps |-> 0,
                  steps |-> <<>>, folded |-> <<>>]
    /\ construction = NoConstruction
    /\ buffer = NoBuffer
    /\ gae = NoGae
    /\ ppoRun = NoPpoRun
    /\ iter = NoIter

\* A mutant of EndEpisode: curEPLen is not reset.
EndEpisodeKeepLen(g) ==
    [g EXCEPT !.avgEpRew = AvgAdd(@, g.curEpRew, 1),
              !.avgEpLen = AvgAdd(@, g.curEPLen, 1),
              !.curEpRew = 0,
              !.folded = Append(@, [at |-> g.totalSteps + 1,
                                    len |-> g.curEPLen, rew |-> g.curEpRew])]

\* "if (stepResult.done) { nextObs = gym->Reset(); avgEpRew += curEpRew;
\* avgEpLen += curEPLen; curEpRew = 0; curEPLen = 0; }" (folded: what was
\* added, and at which step).
EndEpisode(g) ==
    [g EXCEPT !.avgEpRew = AvgAdd(@, g.curEpRew, 1),
              !.avgEpLen = AvgAdd(@, g.curEPLen, 1),
              !.curEpRew = 0,
              !.curEPLen = 0,
              !.folded = Append(@, [at |-> g.totalSteps + 1,
                                    len |-> g.curEPLen, rew |-> g.curEpRew])]

\* GameInst::Step with the step result [reward, done] of the gym.
GameStep(g, reward, done) ==
    LET totalRew == SeqSum(reward)
        stepped == [g EXCEPT
                      !.avgStepRew = AvgAdd(@, totalRew, g.playerAmount),
                      !.curEpRew = @ + totalRew \div g.playerAmount,
                      !.curEPLen = @ + 1,
                      !.steps = Append(@, [mean |-> totalRew \div g.playerAmount,
                                           done |-> done])]
        ended == IF done THEN EndEpisode(stepped) ELSE stepped
    IN  [ended EXCEPT !.totalSteps = @ + 1]

Step ==
    /\ game.stage = "running"
    /\ game.totalSteps < MaxGameSteps
    /\ \E reward \in [1..game.playerAmount -> PlayerRewards], done \in BOOLEAN :
          game' = GameStep(game, reward, done)
    /\ UNCHANGED <<ckptVars, learnVars>>
    /\ UNCHANGED <<construction, buffer, gae, ppoRun, iter>>

NextGame == Step

SpecGame == InitGame /\ [][NextGame]_vars

\* The steps with done = true so far, and the first step of the episode that
\* is going on.
DoneSteps == {i \in 1..Len(game.steps) : game.steps[i].done}
EpisodeStart == IF DoneSteps = {} THEN 1 ELSE SetMax(DoneSteps) + 1

\* The first step of the episode that ended at step d.
StartOf(d) ==
    IF \E i \in DoneSteps : i < d
    THEN SetMax({i \in DoneSteps : i < d}) + 1 ELSE 1

MeanRewards(a, b) == SeqSum([i \in 1..(b - a + 1) |-> game.steps[a + i - 1].mean])

\* C24: curEPLen is the number of steps since the last step with done = true
\* (or since Start), curEpRew the sum of the mean player rewards of those
\* steps; every finished episode was added to avgEpLen and avgEpRew once, at
\* its step with done = true, with its length and its reward; after such a
\* step both accumulators are 0.
C24_EpisodeAccumulators ==
    game.stage = "running" =>
        /\ game.curEPLen = Len(game.steps) - EpisodeStart + 1
        /\ game.curEpRew = MeanRewards(EpisodeStart, Len(game.steps))
        /\ Len(game.folded) = Cardinality(DoneSteps)
        /\ {f.at : f \in {game.folded[i] : i \in 1..Len(game.folded)}} = DoneSteps
        /\ \A i \in 1..Len(game.folded) :
              LET f == game.folded[i]
              IN  /\ f.len = f.at - StartOf(f.at) + 1
                  /\ f.rew = MeanRewards(StartOf(f.at), f.at)
        /\ game.avgEpLen.count = Cardinality(DoneSteps)
        /\ game.avgEpRew.count = Cardinality(DoneSteps)
        /\ game.avgEpLen.total = SeqSum([i \in 1..Len(game.folded) |-> game.folded[i].len])
        /\ game.avgEpRew.total = SeqSum([i \in 1..Len(game.folded) |-> game.folded[i].rew])
        /\ (Len(game.steps) > 0 /\ game.steps[Len(game.steps)].done) =>
              (game.curEPLen = 0 /\ game.curEpRew = 0)

\* Two episodes have ended, the second of two steps with reward, and a third
\* is going on.
C24_Witness ==
    /\ game.stage = "running"
    /\ game.playerAmount = 2
    /\ Len(game.steps) = 4
    /\ DoneSteps = {1, 3}
    /\ game.folded[2].len = 2
    /\ game.folded[2].rew = 3
    /\ game.curEPLen = 1
    /\ game.curEpRew = 1

\* ------------------------------------------------------ return statistics
\* C25: AddNewExperience changes the return statistics only if
\* standardizeReturns is set, and then takes at most maxReturnsPerStatsInc
\* returns of this call into them; the divisor given to ComputeGAE is the
\* standard deviation the statistics had before that increment, and 1 if
\* standardizeReturns is not set.
C25_ReturnStatsFrame ==
    gae.stage = "computed" =>
        /\ ~gae.standardizeReturns =>
              /\ gae.returnStats = gae.statsBefore
              /\ gae.retStd = 1
        /\ gae.standardizeReturns =>
              /\ gae.retStd = gae.statsBefore.std
              /\ gae.returnStats.count - gae.statsBefore.count
                 <= gae.maxReturnsPerStatsInc
              /\ Len(gae.returnStats.taken) <= gae.maxReturnsPerStatsInc
              /\ Len(gae.returnStats.taken) <= Len(gae.traj)
              /\ gae.returnStats.count
                 = gae.statsBefore.count + Len(gae.returnStats.taken)
              /\ IsPrefix(gae.returnStats.taken,
                          [i \in 1..Len(gae.out) |-> gae.out[i].return])

\* Of three returns one was taken into the statistics, whose standard
\* deviation changed with it; the divisor was the one held before.
C25_Witness ==
    /\ gae.stage = "computed"
    /\ gae.standardizeReturns
    /\ gae.maxReturnsPerStatsInc = 1
    /\ Len(gae.traj) = 3
    /\ gae.statsBefore.std = 2
    /\ gae.returnStats.std = 1
    /\ gae.retStd = 2
    /\ gae.returnStats.count = 4

\* The times of this iteration's report have been computed.
TimesComputed == iter.pc \in {"callback", "send", "save", "reset"}

\* C26: the time 'Collected Steps/Second' is divided by is the larger of the
\* time the agents report and the learner's wait for the collection, and it
\* is positive, also when collection was disabled during ppo->Learn.
C26_CollectionTimePositive ==
    (variant = 1 /\ TimesComputed) =>
        /\ iter.trueCollectionTime
           = Max(iter.lastIterationTime, iter.relCollectionTime)
        /\ iter.trueCollectionTime > 0

\* The part of C26 that holds: on the CPU, where collection goes on during
\* ppo->Learn.
CollectionTimePositiveOnCpu ==
    (variant = 1 /\ TimesComputed /\ ~blockAgentInferDuringLearn) =>
        /\ iter.trueCollectionTime
           = Max(iter.lastIterationTime, iter.relCollectionTime)
        /\ iter.trueCollectionTime > 0

\* --------------------------------------------------- cumulative updates
\* The optimizer steps of each network Learn has taken.
OptimizerSteps == Len(ppoRun.steps) \div 2

\* C27: a Learn call adds to cumulativeModelUpdates the number of optimizer
\* steps it took (epochs times the number of batches), also when the buffer
\* yields no batch.
C27_CountsOptimizerSteps ==
    ppoRun.stage = "returned" =>
        /\ OptimizerSteps = ppoRun.config.epochs * ppoRun.numBatches
        /\ cumulativeModelUpdates = OptimizerSteps

\* The part of C27 that holds: when the buffer yields a batch; and with no
\* batch the counter is raised by 1.
CountsOptimizerStepsIfAny ==
    ppoRun.stage = "returned" =>
        /\ OptimizerSteps = ppoRun.config.epochs * ppoRun.numBatches
        /\ ppoRun.numBatches > 0 => cumulativeModelUpdates = OptimizerSteps
        /\ ppoRun.numBatches = 0 =>
              (OptimizerSteps = 0 /\ cumulativeModelUpdates = 1)

\* ------------------------------------------------- folders of Save and Load
\* The directories of folder f whose name is a number.
NumericDirs(f) == {nm \in DOMAIN fs[f].dirs : WellFormed(nm)}

\* C28: part_001's Save with checkpointsToKeep = K >= 1, on folders that were
\* empty at the start, whether or not the load folder is the save folder:
\* after every Save at most K numeric directories are under
\* checkpointSaveFolder.
C28_SaveFolderBounded ==
    (/\ variant = 1
     /\ hist.op = "Save"
     /\ config.checkpointSaveFolder # ""
     /\ config.checkpointsToKeep >= 1
     /\ hist.initEmpty
     /\ ~hist.interrupted) =>
        Cardinality(NumericDirs(config.checkpointSaveFolder))
            <= config.checkpointsToKeep

\* The part of C28 that holds: the bound, when the load folder is the save
\* folder.
SameFolderBounded ==
    (/\ variant = 1
     /\ hist.op = "Save"
     /\ config.checkpointSaveFolder # ""
     /\ config.checkpointLoadFolder = config.checkpointSaveFolder
     /\ config.checkpointsToKeep >= 1
     /\ hist.initEmpty
     /\ ~hist.interrupted) =>
        Cardinality(NumericDirs(config.checkpointSaveFolder))
            <= config.checkpointsToKeep

\* The second half of C28, which does not hold either: no step removes a
\* directory of a folder other than checkpointSaveFolder.
PrunesOnlyUnderSaveFolder ==
    [][\A f \in Folders :
          f # config.checkpointSaveFolder =>
              DOMAIN fs[f].dirs \subseteq DOMAIN fs'[f].dirs]_vars

\* C29: with checkpointSaveFolder set, a call of Save completes, whatever
\* checkpointLoadFolder is (empty, or a directory that does not exist), and
\* the checkpoint it wrote is on disk in full.
C29_SaveCompletes ==
    (config.checkpointSaveFolder # "" /\ hist.op \in {"Save", "SaveFailed"}) =>
        /\ hist.op = "Save"
        /\ to_string(totalTimesteps) \in DOMAIN fs[config.checkpointSaveFolder].dirs

\* What a full checkpoint directory holds.
IsFull(d) == d.stats.present /\ \A i \in FILE_NAMES : d.files[i].present

\* The part of C29 that holds: the five files of the checkpoint have been
\* written when Save fails in its removal of old checkpoints, and the older
\* Save (part_000), which removes nothing, always completes.
WrittenBeforeFailure ==
    /\ hist.op = "SaveFailed" /\ config.checkpointSaveFolder # "" =>
          /\ to_string(totalTimesteps) \in DOMAIN fs[config.checkpointSaveFolder].dirs
          /\ IsFull(fs[config.checkpointSaveFolder].dirs[to_string(totalTimesteps)])
          /\ config.checkpointsToKeep # -1
          /\ \/ config.checkpointLoadFolder = ""
             \/ ~fs[config.checkpointLoadFolder].exists
    /\ variant = 0 /\ config.checkpointSaveFolder # "" => hist.op # "SaveFailed"

\* C30: Load leaves the file system as it was: it creates, changes and
\* deletes no file of any checkpoint directory.
C30_LoadReadOnly == hist.op = "Load" => fs = hist.load.fsBefore

\* The part of C30 that holds: part_001's Load, and a Load that selects no
\* directory; part_000's Load changes nothing but the stats file of the
\* selected directory.
LoadReadOnlyButStats ==
    hist.op = "Load" =>
        /\ (variant = 1 \/ hist.load.sel = <<>>) => fs = hist.load.fsBefore
        /\ \A f \in Folders :
              /\ fs[f].exists = hist.load.fsBefore[f].exists
              /\ DOMAIN fs[f].dirs = DOMAIN hist.load.fsBefore[f].dirs
              /\ \A nm \in DOMAIN fs[f].dirs :
                    /\ fs[f].dirs[nm].files = hist.load.fsBefore[f].dirs[nm].files
                    /\ (f # config.checkpointLoadFolder \/ nm # hist.load.sel) =>
                          fs[f].dirs[nm] = hist.load.fsBefore[f].dirs[nm]

\* The coordinator's pause of collection: the disableCollection flag is set
\* (part_001), or the learner holds the inferenceMutex of some worker
\* (part_000).
CoordinatorPause ==
    disableCollection \/ \E w \in Workers : inferenceMutex[w] = "learner"

\* The pause as ppo->Learn needs it on an accelerator: the flag set, or every
\* inferenceMutex held by the learner.
PauseComplete ==
    IF variant = 1 THEN disableCollection
    ELSE \A w \in Workers : inferenceMutex[w] = "learner"

\* The steps the workers hold or can still produce.
Producible ==
    Len(Gather(agents, Workers))
    + Cardinality({wk \in Workers \X (1..MaxSteps) : wk[2] > agents[wk[1]].seq})

\* C31: the coordinator's pause of collection is in effect only from the
\* statements before PPOLearner::Learn to those after it (or in a process
\* that Learn's exception has ended), it is complete while Learn runs on an
\* accelerator and absent on a CPU; whenever Learner::Learn is in
\* CollectTimesteps the flag is clear and the learner holds no inferenceMutex,
\* and a CollectTimesteps whose workers can still produce the target returns.
C31_PauseOnlyAroundLearn ==
    /\ [](CoordinatorPause =>
            /\ blockAgentInferDuringLearn
            /\ pc \in {"pause", "learn", "resume", "fatal"}
            /\ pc = "fatal" => log.threw)
    /\ []((pc = "learn" /\ blockAgentInferDuringLearn) => PauseComplete)
    /\ [](pc = "collect" => ~CoordinatorPause)
    /\ (pc = "collect" /\ Producible >= config.timestepsPerIteration)
          ~> (pc # "collect")

\* The second CollectTimesteps of a run on an accelerator, after a paused
\* PPOLearner::Learn has returned, with a worker inside its inference call.
C31_Witness ==
    /\ pc = "collect"
    /\ blockAgentInferDuringLearn
    /\ log.iterations = 1
    /\ log.events = PhaseOrder
    /\ ~CoordinatorPause
    /\ \E w \in Workers : inferenceMutex[w] = "agent"

====
